---------------------------- MODULE Spec2Model ----------------------------
(***************************************************************************)
(* Goose Pond Editor: the Lease Manager (SessionTracker, a singleton       *)
(* Durable Object holding the SQL table "leases"), the request router      *)
(* (handleSessionWs) and the per-session Coordinator (Sandbox).            *)
(*                                                                         *)
(* Time is counted in ticks of the clock Date.now() reads.  The source's   *)
(* MAX_CONCURRENT = 20, LEASE_TTL_MS = 120000 and HEARTBEAT_INTERVAL_MS =  *)
(* 30000 are scaled down to values TLC can enumerate; no handler depends   *)
(* on their magnitude, only on comparisons with them.                      *)
(***************************************************************************)
EXTENDS Integers, FiniteSets, Sequences, TLC

\* session-tracker.ts:3 has 20; scaled.
MAX_CONCURRENT == 2
\* session-tracker.ts:4 has 2 * 60 * 1000 ms; scaled to ticks.
LEASE_TTL_MS == 2
\* part_000:9 has 30_000 ms; scaled to ticks.
HEARTBEAT_INTERVAL_MS == 1
\* The clock stops advancing at MaxTime.
MaxTime == 5
\* Sockets one Coordinator has registered at a time.
MaxSockets == 2
\* Restore / generation workflows (and hello handlers about to start one)
\* one Coordinator has in flight at a time.
MaxWorkflows == 2
\* Attempts the clients ask for within one lifetime of a session's state.
MaxEpoch == 2
\* #withContainerRetry: attempts = 5
ATTEMPTS == 5
\* Messages kept in the log.
MaxSent == 14
\* Connection requests in flight in the router at a time, for one session
\* or for several.
MaxRequests == 2

\* One more identifier than the cap, so that the table can be asked for more
\* than it admits.
LeaseIds == 1..(MAX_CONCURRENT + 1)

\* handleSessionWs acquires the lease under the session id itself.
SessionIds == LeaseIds

VARIABLES
    leases,         \* SessionTracker: rows of the table "leases"
    trackerAlarm,   \* SessionTracker: the scheduled alarm, {} or {time}
    now,            \* Date.now()
    last,           \* the last SessionTracker call and what it returned
    scn,            \* observer of the fill / full / freed scenario (history)
    st,             \* Sandbox: storage key "sessionState", per session
    sockets,        \* Sandbox: ctx.getWebSockets() with their attachments
    coAlarm,        \* Sandbox: the scheduled alarm, {} or {time}
    stopping,       \* Sandbox: #stopping
    hellos,         \* Sandbox: #handleHello calls suspended in DIFFS.get
    wfs,            \* Sandbox: #restoreSession / #runGeneration in flight
    hb,             \* Sandbox: alarm() suspended in tracker.renew
    td,             \* Sandbox: #finalizeAndDestroy inside blockConcurrencyWhile
    os,             \* Sandbox: onStop suspended in tracker.release
    reqs,           \* router: handleSessionWs calls in flight, per session
    r2,             \* object store DIFFS: what is archived, per session
    watch,          \* what is recorded: "off", "sockets" (socket events in
                    \* ev), "work" (workflow steps too) or "log" (and the
                    \* messages, in sent)
    ev,             \* the last step of a Coordinator and what it sent
    sent,           \* the log: every message sent so far, in order
    seen,           \* the epoch last held in a session's stored state (history)
    fin             \* teardown runs begun on the stored state (history)

lmVars == <<leases, trackerAlarm>>
obsVars == <<last, scn>>
coVars == <<st, sockets, coAlarm, stopping, hellos, wfs, hb, td, os, reqs, r2>>
sysObs == <<watch, ev, sent, seen, fin>>
vars == <<leases, trackerAlarm, now, last, scn,
          st, sockets, coAlarm, stopping, hellos, wfs, hb, td, os, reqs, r2,
          watch, ev, sent, seen, fin>>

-----------------------------------------------------------------------------
(* SessionTracker: SQL statements as operators on the set of rows.          *)

Row(leaseId, expiresAt) == [lease_id |-> leaseId, expires_at |-> expiresAt]

\* SELECT COUNT(*) as count FROM leases
CountRows(t) == Cardinality(t)

\* the row of a lease id, as a set (PRIMARY KEY: at most one)
RowsOf(t, leaseId) == {r \in t : r.lease_id = leaseId}

evictExpiredInclusive(t, time) == {r \in t : ~(r.expires_at <= time)}

evictExpiredLate(t, time) == {r \in t : ~(r.expires_at + LEASE_TTL_MS < time)}

\* DELETE FROM leases WHERE expires_at < ?
evictExpired(t, time) == {r \in t : ~(r.expires_at < time)}

\* an insert that leaves the row the lease id already has
InsertBeside(t, leaseId, expiresAt) == t \cup {Row(leaseId, expiresAt)}

\* INSERT OR REPLACE INTO leases (lease_id, expires_at) VALUES (?, ?)
InsertOrReplace(t, leaseId, expiresAt) ==
    {r \in t : r.lease_id # leaseId} \cup {Row(leaseId, expiresAt)}

DeleteLeaseUpTo(t, leaseId) == {r \in t : r.lease_id > leaseId}

\* DELETE FROM leases WHERE lease_id = ?
DeleteLease(t, leaseId) == {r \in t : r.lease_id # leaseId}

UpdateExpiresAll(t, leaseId, expiresAt) ==
    IF \E r \in t : r.lease_id = leaseId
    THEN {Row(r.lease_id, expiresAt) : r \in t}
    ELSE t

\* UPDATE leases SET expires_at = ? WHERE lease_id = ? RETURNING lease_id
UpdateExpires(t, leaseId, expiresAt) ==
    {IF r.lease_id = leaseId THEN Row(r.lease_id, expiresAt) ELSE r : r \in t}

\* SELECT MIN(expires_at) as next FROM leases (on a non-empty table)
MinExpires(t) ==
    CHOOSE m \in {r.expires_at : r \in t} : \A r \in t : m <= r.expires_at

AtCapacityOffByOne(count) == count > MAX_CONCURRENT

\* if (row.count >= MAX_CONCURRENT) return null
AtCapacity(count) == count >= MAX_CONCURRENT

MaxExpires(t) ==
    CHOOSE m \in {r.expires_at : r \in t} : \A r \in t : m >= r.expires_at

scheduleLatestAlarm(t, alarmSet) ==
    IF t # {} /\ MaxExpires(t) # 0 THEN {MaxExpires(t)} ELSE alarmSet

\* scheduleNextAlarm: setAlarm(next) when next is neither null nor 0
scheduleNextAlarm(t, alarmSet) ==
    IF t # {} /\ MinExpires(t) # 0 THEN {MinExpires(t)} ELSE alarmSet

\* What a call returns: ok = FALSE is null; val is expiresAt or the count.
\* swept is the number of rows the call's evictExpired deleted (observation
\* only: nothing is returned to the caller for it).
\* prev is the expires_at a renew overwrote (observation only).
Ret(op, leaseId, ok, val, swept, prev) ==
    [op |-> op, id |-> leaseId, ok |-> ok, val |-> val, swept |-> swept,
     prev |-> prev]

\* Each call as a function of (table, alarm, clock): the table and the alarm
\* it leaves and what it returns.
acquire(t, alarmSet, time, leaseId) ==
    LET evicted == evictExpired(t, time)
        expiresAt == time + LEASE_TTL_MS
        inserted == InsertOrReplace(evicted, leaseId, expiresAt)
    IN IF AtCapacity(CountRows(evicted))
       THEN [leases |-> evicted, alarm |-> alarmSet,
             ret |-> Ret("acquire", leaseId, FALSE, 0, CountRows(t) - CountRows(evicted), 0)]
       ELSE [leases |-> inserted, alarm |-> scheduleNextAlarm(inserted, alarmSet),
             ret |-> Ret("acquire", leaseId, TRUE, expiresAt,
                        CountRows(t) - CountRows(evicted), 0)]

release(t, alarmSet, time, leaseId) ==
    LET deleted == DeleteLease(t, leaseId)
    IN [leases |-> deleted, alarm |-> scheduleNextAlarm(deleted, alarmSet),
        ret |-> Ret("release", leaseId, TRUE, 0, 0, 0)]

renew(t, alarmSet, time, leaseId) ==
    LET expiresAt == time + LEASE_TTL_MS
        updated == UpdateExpires(t, leaseId, expiresAt)
    IN IF RowsOf(t, leaseId) = {}
       THEN [leases |-> updated, alarm |-> alarmSet,
             ret |-> Ret("renew", leaseId, FALSE, 0, 0, 0)]
       ELSE [leases |-> updated, alarm |-> scheduleNextAlarm(updated, alarmSet),
             ret |-> Ret("renew", leaseId, TRUE, expiresAt, 0,
                        (CHOOSE r \in RowsOf(t, leaseId) : TRUE).expires_at)]

getActive(t, alarmSet, time) ==
    LET evicted == evictExpired(t, time)
    IN [leases |-> evicted, alarm |-> alarmSet,
        ret |-> Ret("getActive", 0, TRUE, CountRows(evicted),
                   CountRows(t) - CountRows(evicted), 0)]

\* The alarm handler; the runtime has cleared the alarm that fired.
trackerAlarmHandler(t, time) ==
    LET evicted == evictExpired(t, time)
    IN [leases |-> evicted, alarm |-> scheduleNextAlarm(evicted, {}),
        ret |-> Ret("alarm", 0, TRUE, 0, CountRows(t) - CountRows(evicted), 0)]

-----------------------------------------------------------------------------
(* Sandbox (the Coordinator) and the router: data.                          *)

\* SessionStage
Stages == {"idle", "restoring", "running", "done"}

\* the only artifact path a manifest ever lists: `${PROJECT_DIR}/src/App.tsx`
AppPath == "App.tsx"

\* what exposePort returns for the session's port, hostname and token
PreviewUrl == "url"

\* storage.get(SESSION_STATE_KEY) when nothing is stored (undefined);
\* previewUrl "" is the absent optional field
NoState ==
    [present |-> FALSE, sessionId |-> 0, leaseId |-> 0, stage |-> "idle",
     epoch |-> 0, previewUrl |-> "", modifiedFiles |-> <<>>]

\* the state fetch initialises when none is stored
NewState(sessionId, leaseId) ==
    [present |-> TRUE, sessionId |-> sessionId, leaseId |-> leaseId,
     stage |-> "idle", epoch |-> 0, previewUrl |-> "", modifiedFiles |-> <<>>]

\* WsAttachment
Attachment(socketId, state, replaced) ==
    [id |-> socketId, state |-> state, replaced |-> replaced]

NoRequests == [fetch |-> 0, full |-> 0]

\* a message on a socket: JSON.stringify({type, ...data}) sent to the
\* sockets `to`
Msg(to, type, data) == [to |-> to, type |-> type, data |-> data]

\* what a Coordinator handler did in one step: the handler, the socket the
\* event came on (0 if none) with its replaced mark, the prompt it was given
\* and the messages sent
Event(s, op, a, arg, msgs) ==
    [s |-> s, op |-> op, ws |-> a.id, replaced |-> a.replaced, arg |-> arg,
     calls |-> <<>>, msgs |-> msgs]
NoSocket == [id |-> 0, state |-> "none", replaced |-> FALSE]
NoEvent == Event(0, "none", NoSocket, "", <<>>)

-----------------------------------------------------------------------------
(* Observer of the scenario "from an empty table, cap acquires of distinct *)
(* ids, then acquires beyond the cap, then a release, then an acquire".    *)
(* It records calls only; it never looks at the table.                     *)

ScnInit ==
    [phase |-> "fill", ids |-> {}, firstExp |-> 0, lastExp |-> 0, refused |-> FALSE]
ScnOff ==
    [phase |-> "off", ids |-> {}, firstExp |-> 0, lastExp |-> 0, refused |-> FALSE]

\* an expiry has occurred once the clock has passed the earliest expiry granted
ScnExpired(s, time) == s.ids # {} /\ time > s.firstExp

ScnAcquire(s, time, leaseId, r) ==
    IF s.phase = "off" \/ s.phase = "closed" \/ ScnExpired(s, time)
    THEN ScnOff
    ELSE IF s.phase = "freed"
    THEN [s EXCEPT !.phase = "closed"]
    ELSE IF leaseId \in s.ids
    THEN ScnOff
    ELSE IF s.phase = "fill"
    THEN [phase |-> IF Cardinality(s.ids) + 1 = MAX_CONCURRENT THEN "full" ELSE "fill",
          ids |-> s.ids \cup {leaseId},
          firstExp |-> IF s.ids = {} THEN r.val ELSE s.firstExp,
          lastExp |-> r.val,
          refused |-> FALSE]
    ELSE [s EXCEPT !.refused = TRUE]

ScnRelease(s, time, leaseId) ==
    IF s.phase = "full" /\ leaseId \in s.ids /\ ~ScnExpired(s, time)
    THEN [s EXCEPT !.phase = "freed", !.ids = s.ids \ {leaseId}]
    ELSE ScnOff

ScnOther(s, time) ==
    IF s.phase \in {"off", "closed"} \/ ScnExpired(s, time) THEN ScnOff ELSE s

-----------------------------------------------------------------------------
(* The Lease Manager alone: any caller, any order, the clock advancing.     *)

InitTracker ==
    /\ leases = {}
    /\ trackerAlarm = {}
    /\ now = 0
    /\ last = Ret("init", 0, TRUE, 0, 0, 0)
    /\ scn = ScnInit

InitLease ==
    /\ InitTracker
    /\ st = [s \in SessionIds |-> NoState]
    /\ sockets = [s \in SessionIds |-> {}]
    /\ coAlarm = [s \in SessionIds |-> {}]
    /\ stopping = [s \in SessionIds |-> FALSE]
    /\ hellos = [s \in SessionIds |-> {}]
    /\ wfs = [s \in SessionIds |-> {}]
    /\ hb = [s \in SessionIds |-> FALSE]
    /\ td = [s \in SessionIds |-> FALSE]
    /\ os = [s \in SessionIds |-> FALSE]
    /\ reqs = [s \in SessionIds |-> NoRequests]
    /\ r2 = [s \in SessionIds |-> [manifest |-> FALSE, file |-> FALSE]]
    /\ watch = "off"
    /\ sent = <<>>
    /\ ev = NoEvent
    /\ seen = [s \in SessionIds |-> 0]
    /\ fin = [s \in SessionIds |-> 0]

Apply(res) ==
    /\ leases' = res.leases
    /\ trackerAlarm' = res.alarm
    /\ last' = res.ret

CallAcquire(leaseId) ==
    /\ Apply(acquire(leases, trackerAlarm, now, leaseId))
    /\ scn' = ScnAcquire(scn, now, leaseId, acquire(leases, trackerAlarm, now, leaseId).ret)
    /\ UNCHANGED <<now, coVars, sysObs>>

CallRelease(leaseId) ==
    /\ Apply(release(leases, trackerAlarm, now, leaseId))
    /\ scn' = ScnRelease(scn, now, leaseId)
    /\ UNCHANGED <<now, coVars, sysObs>>

CallRenew(leaseId) ==
    /\ Apply(renew(leases, trackerAlarm, now, leaseId))
    /\ scn' = ScnOff
    /\ UNCHANGED <<now, coVars, sysObs>>

CallGetActive ==
    /\ Apply(getActive(leases, trackerAlarm, now))
    /\ scn' = ScnOther(scn, now)
    /\ UNCHANGED <<now, coVars, sysObs>>

\* The runtime runs alarm() once the scheduled time has come.
TrackerAlarm ==
    /\ \E a \in trackerAlarm : a <= now
    /\ Apply(trackerAlarmHandler(leases, now))
    /\ scn' = ScnOther(scn, now)
    /\ UNCHANGED <<now, coVars, sysObs>>

Tick ==
    /\ now < MaxTime
    /\ now' = now + 1
    /\ last' = Ret("tick", 0, TRUE, 0, 0, 0)
    /\ UNCHANGED <<leases, trackerAlarm, scn, coVars, sysObs>>

NextLease ==
    \/ \E leaseId \in LeaseIds : CallAcquire(leaseId)
    \/ \E leaseId \in LeaseIds : CallRelease(leaseId)
    \/ \E leaseId \in LeaseIds : CallRenew(leaseId)
    \/ CallGetActive
    \/ TrackerAlarm
    \/ Tick

SpecLease == InitLease /\ [][NextLease]_vars

SpecLeaseFair == SpecLease /\ WF_vars(Tick) /\ WF_vars(TrackerAlarm)


-----------------------------------------------------------------------------
(* The whole system: router, Lease Manager, Coordinators.  A call to the    *)
(* Lease Manager runs there atomically (a single-writer Durable Object); a  *)
(* Coordinator handler runs up to its next await of I/O outside storage,    *)
(* where other events of the same Coordinator may be delivered.             *)

Upd(f, s, v) == [f EXCEPT ![s] = v]

\* a step that sends nothing
Quiet == ev' = NoEvent /\ sent' = sent

\* a step and what it sent, recorded and logged as far as `watch` says
Record(e, on) ==
    /\ ev' = IF on THEN e ELSE NoEvent
    /\ IF watch = "log"
       THEN Len(sent) + Len(e.msgs) <= MaxSent /\ sent' = sent \o e.msgs
       ELSE sent' = sent

\* a socket event
Observe(e) == Record(e, watch # "off")

\* a step of a workflow
ObserveWork(e) == Record(e, watch \in {"work", "log"})

\* The outcomes a step is given.  Where the steps of workflows are not
\* recorded, the state after a step depends only on whether it went through,
\* and the outcomes in `plain` (one of each) stand for all.
Told(all, plain) == IF watch \in {"work", "log"} THEN all ELSE plain

\* history: the epoch of the state a step leaves stored, kept when the state
\* is deleted
Sees(s) ==
    seen' = Upd(seen, s, IF st'[s].present THEN st'[s].epoch ELSE seen[s])

\* A call to the tracker made by the system: its effect on the table.
TrackerDoes(res) ==
    /\ leases' = res.leases
    /\ trackerAlarm' = res.alarm

\* A call whose failure the caller catches: it runs, or it throws before
\* reaching the tracker.
TrackerMay(res) == TrackerDoes(res) \/ UNCHANGED lmVars

\* #send(ws, type, data) and #broadcast(type, data): the message and the
\* sockets it is written to
send(a, type, data) == Msg({a.id}, type, data)
broadcast(s, type, data) == Msg({x.id : x \in sockets[s]}, type, data)

ErrorData(message) == [message |-> message]
WelcomeData(state) ==
    [sessionId |-> state.sessionId, stage |-> state.stage,
     previewUrl |-> state.previewUrl, epoch |-> state.epoch]
StatusData(step, epoch) == [step |-> step, epoch |-> epoch]
NoData == [none |-> TRUE]

\* blockConcurrencyWhile: no event is delivered to the Coordinator.
Blocked(s) == td[s]

\* generateSocketId: an id no registered socket and no suspended handler has
UsedSocketIds(s) == {a.id : a \in sockets[s]} \cup {h.ws : h \in hellos[s]}
FreeSocketIds(s) == (1..MaxSockets) \ UsedSocketIds(s)
generateSocketId(s) == CHOOSE i \in FreeSocketIds(s) : \A j \in FreeSocketIds(s) : i <= j

\* #persistToR2: nothing to do without modifiedFiles; otherwise the manifest
\* is put, then each file is read and put; a failure at any step is caught
\* and leaves what was written before it.
persistToR2(archive, state) ==
    IF Len(state.modifiedFiles) = 0
    THEN {archive}
    ELSE {archive,
          [archive EXCEPT !.manifest = TRUE],
          [manifest |-> TRUE, file |-> TRUE]}

\* the connection requests between the router's acquire and its end, over
\* the sessions S; the clients keep at most MaxRequests of them in flight,
\* for one session or for several
RECURSIVE InFlight(_)
InFlight(S) ==
    IF S = {} THEN 0
    ELSE LET s == CHOOSE x \in S : TRUE
         IN reqs[s].fetch + reqs[s].full + InFlight(S \ {s})

\* handleSessionWs up to the acquire: the lease is asked for under the
\* session id; a refused request goes on to getActive, an admitted one to
\* sandbox.fetch.
RouterConnect(s) ==
    /\ InFlight(SessionIds) < MaxRequests
    /\ LET res == acquire(leases, trackerAlarm, now, s)
       IN /\ TrackerDoes(res)
          /\ reqs' = Upd(reqs, s,
                IF res.ret.ok THEN [reqs[s] EXCEPT !.fetch = @ + 1]
                              ELSE [reqs[s] EXCEPT !.full = @ + 1])
    /\ UNCHANGED <<now, obsVars, watch, seen, fin, st, sockets, coAlarm, stopping, hellos, wfs,
                   hb, td, os, r2>>
    /\ Quiet

\* what the router answers on the socket it accepts itself: the messages
\* sent to the client and the close code
RouterReply(s, code, type, data) ==
    Event(s, "router", NoSocket, code, <<Msg({}, type, data)>>)

\* handleSessionWs, no lease: getActive, then {type: "full", active} and
\* close 4429.
RouterFull(s) ==
    /\ reqs[s].full > 0
    /\ LET res == getActive(leases, trackerAlarm, now)
       IN /\ TrackerDoes(res)
          /\ Observe(RouterReply(s, "4429", "full", [active |-> res.ret.val]))
    /\ reqs' = Upd(reqs, s, [reqs[s] EXCEPT !.full = @ - 1])
    /\ UNCHANGED <<now, obsVars, watch, seen, fin, st, sockets, coAlarm, stopping, hellos, wfs,
                   hb, td, os, r2>>

\* url.searchParams.get("session"): null when the parameter is absent, the
\* empty string, a non-empty string that SESSION_ID_RE does not match, or an
\* id that it matches
Param(kind, id) == [kind |-> kind, id |-> id]
Params ==
    {Param("absent", 0), Param("empty", 0), Param("malformed", 0)}
       \cup {Param("wellformed", s) : s \in SessionIds}

\* SESSION_ID_RE.test(existingSessionId)
SESSION_ID_RE(p) == p.kind = "wellformed"

\* a test that turns away every parameter the pattern does not match
InvalidOrEmpty(p) == p.kind \in {"empty", "malformed"}

\* `existingSessionId && !SESSION_ID_RE.test(existingSessionId)`: null and
\* the empty string are falsy
Invalid(p) == p.kind \notin {"absent", "empty"} /\ ~SESSION_ID_RE(p)

\* `existingSessionId || generateId()`, generateId() giving g
sessionIdOf(p, g) == IF p.kind \in {"absent", "empty"} THEN g ELSE p.id

\* handleSessionWs from the request on: an invalid parameter is answered
\* with error and close 1008; otherwise the lease is asked for.
HandleSessionWs(p, g) ==
    IF Invalid(p)
    THEN /\ UNCHANGED <<lmVars, now, obsVars, watch, seen, fin, coVars>>
         /\ Observe(RouterReply(0, "1008", "error",
                                ErrorData("Invalid session ID format")))
    ELSE RouterConnect(sessionIdOf(p, g))

\* handleSessionWs, catch: sandbox.fetch threw; the lease is released.
RouterFetchFail(s) ==
    /\ reqs[s].fetch > 0
    /\ TrackerDoes(release(leases, trackerAlarm, now, s))
    /\ reqs' = Upd(reqs, s, [reqs[s] EXCEPT !.fetch = @ - 1])
    /\ UNCHANGED <<now, obsVars, watch, seen, fin, st, sockets, coAlarm, stopping, hellos, wfs,
                   hb, td, os, r2>>
    /\ Quiet

\* a loop that closes the older sockets without marking them
supersedeUnmarked(a) == a
\* fetch, the loop over getWebSockets(): the attachment of an older socket
\* is written back with replaced = true, and the socket is closed; it stays
\* registered until its close event is delivered.
supersede(a) == Attachment(a.id, a.state, TRUE)

\* Sandbox.fetch for /ws/session: load or initialise the state, accept the
\* socket, store the state, set the heartbeat alarm, mark every other socket
\* replaced and close it (it stays registered until its close event).
SandboxFetch(s) ==
    /\ reqs[s].fetch > 0
    /\ ~Blocked(s)
    /\ FreeSocketIds(s) # {}
    /\ reqs' = Upd(reqs, s, [reqs[s] EXCEPT !.fetch = @ - 1])
    /\ st' = Upd(st, s, IF st[s].present THEN st[s] ELSE NewState(s, s))
    /\ coAlarm' = Upd(coAlarm, s, {now + HEARTBEAT_INTERVAL_MS})
    /\ sockets' = Upd(sockets, s,
          {supersede(a) : a \in sockets[s]}
             \cup {Attachment(generateSocketId(s), "connected", FALSE)})
    /\ UNCHANGED <<lmVars, now, obsVars, watch, fin, stopping, hellos, wfs, hb, td, os, r2>>
    /\ Sees(s)
    /\ Quiet

\* #finalizeAndDestroy entered: blockConcurrencyWhile begins and
\* #persistToR2(state) runs.
BeginFinalize(s) ==
    /\ td' = Upd(td, s, TRUE)
    /\ fin' = Upd(fin, s, IF fin[s] < 2 THEN fin[s] + 1 ELSE 2)
    /\ \E archive \in persistToR2(r2[s], st[s]) : r2' = Upd(r2, s, archive)

\* a close handler that does not look at the attachment of its socket
FinalizesAnySocket(s, a) ==
    ~stopping[s] /\ sockets[s] \ {a} = {} /\ st[s].present
\* webSocketClose, the tests before #finalizeAndDestroy: not stopping, the
\* socket not replaced, no other socket registered, a state stored.
Finalizes(s, a) ==
    ~stopping[s] /\ ~a.replaced /\ sockets[s] \ {a} = {} /\ st[s].present

\* webSocketClose(ws); the socket leaves the registry with the event.
WebSocketClose(s, a) ==
    /\ a \in sockets[s]
    /\ ~Blocked(s)
    /\ sockets' = Upd(sockets, s, sockets[s] \ {a})
    /\ IF Finalizes(s, a)
       THEN BeginFinalize(s)
       ELSE UNCHANGED <<td, r2, fin>>
    /\ UNCHANGED <<lmVars, now, obsVars, watch, seen, st, coAlarm, stopping, hellos, wfs,
                   hb, os, reqs>>
    /\ Quiet

\* #finalizeAndDestroy with the two try blocks left out: a sub-step that
\* throws ends the sequence
AbortsOnFailure(archiveFailed, releaseFailed) == archiveFailed \/ releaseFailed
\* #finalizeAndDestroy, `try { ... } catch {}` around #persistToR2 and around
\* the release: no failure of either ends the sequence before the cleanup.
Aborts(archiveFailed, releaseFailed) == FALSE

\* the archival of the teardown in progress did not complete: the state
\* lists files and the store does not hold the manifest and the file
\* (#persistToR2 caught a failed put or read)
ArchiveFailed(s) ==
    Len(st[s].modifiedFiles) > 0 /\ r2[s] # [manifest |-> TRUE, file |-> TRUE]

\* what went wrong in a teardown, for the record of the step
Outcome(archiveFailed, releaseFailed) ==
    CASE archiveFailed /\ releaseFailed -> "archive and release failed"
      [] archiveFailed /\ ~releaseFailed -> "archive failed"
      [] ~archiveFailed /\ releaseFailed -> "release failed"
      [] OTHER -> "clean"

\* #finalizeAndDestroy, the rest: tracker.release(state.leaseId) (a failure
\* is swallowed), deleteAlarm, delete the state; the block ends.
FinishFinalize(s) ==
    /\ td[s]
    /\ \E released \in BOOLEAN :
          /\ IF released
             THEN TrackerDoes(release(leases, trackerAlarm, now, st[s].leaseId))
             ELSE UNCHANGED lmVars
          /\ IF Aborts(ArchiveFailed(s), ~released)
             THEN UNCHANGED <<coAlarm, st, fin>>
             ELSE /\ coAlarm' = Upd(coAlarm, s, {})
                  /\ st' = Upd(st, s, NoState)
                  /\ fin' = Upd(fin, s, 0)
          /\ Observe(Event(s, "finalize", NoSocket,
                           Outcome(ArchiveFailed(s), ~released), <<>>))
    /\ td' = Upd(td, s, FALSE)
    /\ UNCHANGED <<now, obsVars, watch, seen, sockets, stopping, hellos, wfs, hb, os, reqs, r2>>

\* an alarm handler that looks only at the sockets not superseded
noOpenSockets(S) == {a \in S : ~a.replaced} = {}
\* alarm(): `sockets.length === 0` over this.ctx.getWebSockets()
noSockets(S) == S = {}

\* Sandbox.alarm() up to its await: the alarm that fired is cleared; no state:
\* return; no sockets: finalize; otherwise tracker.renew is called.
SandboxAlarm(s) ==
    /\ \E t \in coAlarm[s] : t <= now
    /\ ~Blocked(s)
    /\ ~hb[s]
    /\ coAlarm' = Upd(coAlarm, s, {})
    /\ IF ~st[s].present
       THEN UNCHANGED <<td, r2, fin, hb>>
       ELSE IF noSockets(sockets[s])
       THEN BeginFinalize(s) /\ UNCHANGED hb
       ELSE hb' = Upd(hb, s, TRUE) /\ UNCHANGED <<td, r2, fin>>
    /\ UNCHANGED <<lmVars, now, obsVars, watch, seen, st, sockets, stopping, hellos, wfs,
                   os, reqs>>
    /\ Observe(Event(s, "alarm", NoSocket,
                     IF ~st[s].present THEN "no state"
                     ELSE IF noSockets(sockets[s]) THEN "finalize"
                     ELSE "renew", <<>>))

\* Sandbox.alarm() resumed: the renew of the leaseId it read (the session id,
\* in every state fetch initialises) has run or failed (caught);
\* setAlarm(Date.now() + HEARTBEAT_INTERVAL_MS).
SandboxAlarmResume(s) ==
    /\ hb[s]
    /\ ~Blocked(s)
    /\ \E renewed \in BOOLEAN :
          /\ IF renewed
             THEN TrackerDoes(renew(leases, trackerAlarm, now, s))
             ELSE UNCHANGED lmVars
          /\ Observe(Event(s, "alarmResume", NoSocket,
                           IF renewed THEN "renewed" ELSE "renew failed", <<>>))
    /\ coAlarm' = Upd(coAlarm, s, {now + HEARTBEAT_INTERVAL_MS})
    /\ hb' = Upd(hb, s, FALSE)
    /\ UNCHANGED <<now, obsVars, watch, seen, fin, st, sockets, stopping, hellos, wfs, td, os,
                   reqs, r2>>

\* onStop and the archive: the state it loads is deleted and its lease
\* released; #persistToR2 is not called on it.
onStopArchive(state) ==
    IF ~state.present THEN "no state"
    ELSE IF Len(state.modifiedFiles) = 0 THEN "nothing to archive"
    ELSE "not archived"

\* onStop up to its await: #stopping, "expired" to all, every socket closed
\* (each stays registered until its close event); with a state: deleteAlarm,
\* delete the state, then tracker.release is called.
OnStop(s) ==
    /\ ~stopping[s]
    /\ ~Blocked(s)
    /\ stopping' = Upd(stopping, s, TRUE)
    /\ IF st[s].present
       THEN /\ coAlarm' = Upd(coAlarm, s, {})
            /\ st' = Upd(st, s, NoState)
            /\ os' = Upd(os, s, TRUE)
            /\ fin' = Upd(fin, s, 0)
       ELSE UNCHANGED <<coAlarm, st, os, fin>>
    /\ UNCHANGED <<lmVars, now, obsVars, watch, seen, sockets, hellos, wfs, hb, td, reqs, r2>>
    /\ Observe(Event(s, "stop", NoSocket, onStopArchive(st[s]),
                     <<broadcast(s, "expired", NoData)>>))

\* onStop resumed: the release has run or failed (caught).
OnStopRelease(s) ==
    /\ os[s]
    /\ ~Blocked(s)
    /\ TrackerMay(release(leases, trackerAlarm, now, s))
    /\ os' = Upd(os, s, FALSE)
    /\ UNCHANGED <<now, obsVars, watch, seen, fin, st, sockets, coAlarm, stopping, hellos, wfs,
                   hb, td, reqs, r2>>
    /\ Quiet

\* The stopped instance, with nothing of it still running, is constructed
\* anew for the next event: #stopping = false.
Reconstruct(s) ==
    /\ stopping[s]
    /\ ~os[s] /\ ~td[s] /\ ~hb[s] /\ hellos[s] = {} /\ wfs[s] = {}
    /\ stopping' = Upd(stopping, s, FALSE)
    /\ UNCHANGED <<lmVars, now, obsVars, watch, seen, fin, st, sockets, coAlarm, hellos, wfs,
                   hb, td, os, reqs, r2>>
    /\ Quiet

\* SessionTracker.alarm() in the running system
SysTrackerAlarm ==
    /\ \E a \in trackerAlarm : a <= now
    /\ TrackerDoes(trackerAlarmHandler(leases, now))
    /\ UNCHANGED <<now, obsVars, watch, seen, fin, coVars>>
    /\ Quiet

SysTick ==
    /\ now < MaxTime
    /\ now' = now + 1
    /\ UNCHANGED <<lmVars, obsVars, watch, seen, fin, coVars>>
    /\ Quiet

\* A workflow in flight: its place (the await it is suspended in) and the
\* epoch it was started with.
Workflow(n, kind, pc, epoch) ==
    [n |-> n, kind |-> kind, pc |-> pc, epoch |-> epoch, url |-> ""]

FreeSlots(s) == (1..MaxWorkflows) \ {w.n : w \in wfs[s]}
FreeSlot(s) == CHOOSE i \in FreeSlots(s) : \A j \in FreeSlots(s) : i <= j

\* The clients ask for a further attempt only within the bounds.
MayAttempt(s) ==
    /\ Cardinality(wfs[s]) + Cardinality(hellos[s]) < MaxWorkflows
    /\ st[s].epoch + Cardinality(hellos[s]) < MaxEpoch

SetPc(s, w, pc) == (wfs[s] \ {w}) \cup {[w EXCEPT !.pc = pc]}

\* the JavaScript value undefined, as a template literal prints it
Undefined == "undefined"

\* `!prompt`
Falsy(v) == v = Undefined \/ v = ""

\* what #handleHello sends before its first await
HelloReplies(s, a) ==
    IF a.state # "connected"
    THEN <<send(a, "error", ErrorData("Already sent hello"))>>
    ELSE IF ~st[s].present \/ st[s].stage = "idle"
    THEN <<>>
    ELSE IF st[s].stage = "done"
    THEN <<send(a, "welcome", WelcomeData(st[s])), send(a, "ready", NoData)>>
    ELSE <<send(a, "welcome", WelcomeData(st[s]))>>

\* what #handleHello sends once DIFFS.get has answered with `manifest`
HelloResumeReplies(s, a, manifest) ==
    IF ~st[s].present
    THEN <<>>
    ELSE IF st[s].stage # "idle"
    THEN <<send(a, "welcome", WelcomeData(st[s]))>>
    ELSE IF manifest
    THEN <<send(a, "welcome",
                [sessionId |-> st[s].sessionId, stage |-> "restoring",
                 epoch |-> st[s].epoch + 1]),
           broadcast(s, "status", StatusData("restoring", st[s].epoch + 1))>>
    ELSE <<send(a, "welcome",
                [sessionId |-> st[s].sessionId, stage |-> "idle",
                 epoch |-> st[s].epoch]),
           send(a, "ready", NoData)>>

\* `state.stage !== "idle" && state.stage !== "done"` rejects the start
AcceptsStartAnyStage(stage) == stage \in Stages
AcceptsStart(stage) == stage \in {"idle", "done"}

\* what #handleStart and #runGeneration send before the first await
StartReplies(s, a, prompt) ==
    IF Falsy(prompt)
    THEN <<send(a, "error", ErrorData("prompt is required"))>>
    ELSE IF ~st[s].present
    THEN <<>>
    ELSE IF ~AcceptsStart(st[s].stage)
    THEN <<send(a, "error", ErrorData("A generation is already in progress"))>>
    ELSE IF st[s].previewUrl = ""
    THEN <<broadcast(s, "status", StatusData("server", st[s].epoch + 1))>>
    ELSE <<>>

\* the socket a suspended #handleHello holds, as it is registered now
SocketOf(s, id) ==
    IF \E x \in sockets[s] : x.id = id
    THEN CHOOSE x \in sockets[s] : x.id = id
    ELSE [id |-> id, state |-> "closed", replaced |-> FALSE]

\* webSocketMessage {type: "hello"} -> #handleHello up to DIFFS.get
Hello(s, a) ==
    /\ a \in sockets[s]
    /\ ~Blocked(s)
    /\ IF a.state # "connected"
       THEN UNCHANGED <<sockets, hellos>>
       ELSE /\ sockets' = Upd(sockets, s,
                  (sockets[s] \ {a}) \cup {Attachment(a.id, "ready", a.replaced)})
            /\ IF st[s].present /\ st[s].stage = "idle"
               THEN /\ MayAttempt(s)
                    /\ hellos' = Upd(hellos, s, hellos[s] \cup
                          {[ws |-> a.id, manifest |-> r2[s].manifest]})
               ELSE UNCHANGED hellos
    /\ UNCHANGED <<lmVars, now, obsVars, watch, seen, fin, st, coAlarm, stopping, wfs, hb, td, os,
                   reqs, r2>>
    /\ Observe(Event(s, "hello", a, "", HelloReplies(s, a)))

\* #handleHello after DIFFS.get: the state is read again; still idle and a
\* manifest was found (at some moment of the get): stage restoring, epoch + 1,
\* saved, welcome, and #restoreSession runs to its first await.
HelloResume(s, h) ==
    /\ h \in hellos[s]
    /\ ~Blocked(s)
    /\ hellos' = Upd(hellos, s, hellos[s] \ {h})
    /\ \E manifest \in {h.manifest, r2[s].manifest} :
          /\ IF st[s].present /\ st[s].stage = "idle" /\ manifest
             THEN /\ st' = Upd(st, s, [st[s] EXCEPT !.stage = "restoring",
                                                    !.epoch = @ + 1])
                  /\ wfs' = Upd(wfs, s, wfs[s] \cup
                        {Workflow(FreeSlot(s), "restore", "env", st[s].epoch + 1)})
             ELSE UNCHANGED <<st, wfs>>
          /\ Observe(Event(s, "helloResume", SocketOf(s, h.ws), "",
                           HelloResumeReplies(s, SocketOf(s, h.ws), manifest)))
    /\ UNCHANGED <<lmVars, now, obsVars, watch, fin, sockets, coAlarm, stopping, hb, td, os,
                   reqs, r2>>
    /\ Sees(s)

\* webSocketMessage {type: "start", prompt} -> #handleStart -> #runGeneration
\* up to its first await: no prompt, no state or a stage other than idle /
\* done end it; otherwise stage running, epoch + 1, saved.
Start(s, a, prompt) ==
    /\ a \in sockets[s]
    /\ ~Blocked(s)
    /\ IF ~Falsy(prompt) /\ st[s].present /\ AcceptsStart(st[s].stage)
       THEN /\ MayAttempt(s)
            /\ st' = Upd(st, s, [st[s] EXCEPT !.stage = "running", !.epoch = @ + 1])
            /\ wfs' = Upd(wfs, s, wfs[s] \cup
                  {Workflow(FreeSlot(s), "generate",
                            IF st[s].previewUrl = "" THEN "env" ELSE "renew1",
                            st[s].epoch + 1)})
       ELSE UNCHANGED <<st, wfs>>
    /\ UNCHANGED <<lmVars, now, obsVars, watch, fin, sockets, coAlarm, stopping, hellos, hb,
                   td, os, reqs, r2>>
    /\ Sees(s)
    /\ Observe(Event(s, "start", a, prompt, StartReplies(s, a, prompt)))

\* What one stretch of a workflow did between two places where it can be
\* overtaken: whether it went through, the failure thrown if not, the calls
\* it made on the execution environment and the messages it sent, in order.
Run(ok, err, calls, msgs) == [ok |-> ok, err |-> err, calls |-> calls, msgs |-> msgs]

\* String(err) of a failure of a collaborator, and of the Error thrown for a
\* file the manifest lists and the store lacks
GenericError == "Error: failed"
MissingError == "Error: Missing R2 object"

\* an awaited call that does or does not throw; `call` names a call on the
\* execution environment
Step(ok) == Run(ok, IF ok THEN "" ELSE GenericError, <<>>, <<>>)
Call(ok, call) == Run(ok, IF ok THEN "" ELSE GenericError, <<call>>, <<>>)
\* a broadcast that reaches nobody
SayNothing(msg) == Run(TRUE, "", <<>>, <<>>)
\* a broadcast inside a try block
Say(msg) == Run(TRUE, "", <<>>, <<msg>>)
Throw(err) == Run(FALSE, err, <<>>, <<>>)

\* a; b inside one try block: b runs if a did not throw
Then(a, b) ==
    IF ~a.ok THEN a
    ELSE Run(b.ok, b.err, a.calls \o b.calls, a.msgs \o b.msgs)

RetryData(attempt, epoch) == [step |-> "server", attempt |-> attempt, epoch |-> epoch]
PreviewData(url, epoch) == [url |-> url, epoch |-> epoch]
DoneData(sessionId, url, epoch) == [sessionId |-> sessionId, url |-> url, epoch |-> epoch]
ErrorEpochData(message, epoch) == [message |-> message, epoch |-> epoch]

\* How many of the first attempts of a retried call fail: none, some, all.
Failures == 0..ATTEMPTS

\* a call made once, its failure thrown at once
withoutRetry(s, call, failures, epoch) == Call(failures = 0, call)

\* #withContainerRetry(fn, epoch), the loop from index i on; the first
\* `failures` attempts throw.  A failed attempt that is not the last is
\* followed by the status naming attempt i + 2; the last one rethrows.
RECURSIVE retryFrom(_, _, _, _, _)
retryFrom(s, call, failures, epoch, i) ==
    IF i >= failures
    THEN Call(TRUE, call)
    ELSE IF i = ATTEMPTS - 1
    THEN Call(FALSE, call)
    ELSE LET rest == retryFrom(s, call, failures, epoch, i + 1)
         IN Run(rest.ok, rest.err, <<call>> \o rest.calls,
                <<broadcast(s, "status", RetryData(i + 2, epoch))>> \o rest.msgs)

withContainerRetry(s, call, failures, epoch) == retryFrom(s, call, failures, epoch, 0)

\* a catch block that reports the failure and nothing after it
CatchRepliesNoReady(s, w, err) ==
    IF ~st[s].present
    THEN <<>>
    ELSE <<broadcast(s, "error", ErrorEpochData(<<err>>, w.epoch))>>

\* catch (err) of #runGeneration and #restoreSession: what is broadcast when
\* a state is stored
CatchReplies(s, w, err) ==
    IF ~st[s].present
    THEN <<>>
    ELSE <<broadcast(s, "error",
                     ErrorEpochData(IF w.kind = "restore"
                                    THEN <<"Restore failed: ", err>>
                                    ELSE <<err>>, w.epoch)),
           broadcast(s, "ready", NoData)>>

\* a step of a workflow, recorded: the calls it made and what it sent
WorkEvent(s, w, op, calls, msgs) ==
    [Event(s, op, NoSocket, w.kind, msgs) EXCEPT !.calls = calls]

\* catch (err): the state is read again; if there is one, stage idle, saved,
\* error and ready broadcast.
Catch(s, w, run) ==
    /\ st' = Upd(st, s, IF st[s].present THEN [st[s] EXCEPT !.stage = "idle"]
                                         ELSE st[s])
    /\ wfs' = Upd(wfs, s, wfs[s] \ {w})
    /\ ObserveWork(WorkEvent(s, w, "catch", run.calls,
                         run.msgs \o CatchReplies(s, w, run.err)))

\* `state = await this.#loadState(); if (!state) return;` then the state is
\* saved as `state`, `msgs` are broadcast and the workflow goes on as w2
Reload(s, w, op, run, state, msgs, w2) ==
    IF st[s].present
    THEN /\ st' = Upd(st, s, state)
         /\ wfs' = Upd(wfs, s, (wfs[s] \ {w}) \cup {w2})
         /\ ObserveWork(WorkEvent(s, w, op, run.calls, run.msgs \o msgs))
    ELSE /\ st' = st
         /\ wfs' = Upd(wfs, s, wfs[s] \ {w})
         /\ ObserveWork(WorkEvent(s, w, op, run.calls, run.msgs))

\* #restoreSession up to the state read after waitForPort: manifest.json(),
\* the file fetched (absent: "Missing R2 object" is thrown) and written with
\* retries, status(server), the process started with retries, the port
\* waited for.
\* The outcomes of the awaited calls of that stretch.  A call that is never
\* made (the file is absent, or an earlier call has thrown) has no outcome to
\* draw: it is given as succeeding.
RestoreEnvInputs(s) ==
    Told({o \in [read : BOOLEAN, write : Failures, start : Failures, port : BOOLEAN] :
             /\ (~o.read \/ ~r2[s].file) => o.write = 0
             /\ o.write # 0 => o.write < ATTEMPTS \/ o.start = 0
             /\ (o.write = ATTEMPTS \/ ~o.read \/ ~r2[s].file) => o.start = 0
             /\ (o.start = ATTEMPTS \/ o.write = ATTEMPTS \/ ~o.read \/ ~r2[s].file)
                   => o.port},
         [read : BOOLEAN, write : {0}, start : {0}, port : {TRUE}])

\* a restore that looks for the archived file only after it has started the
\* process
restoreEnvChecksLate(s, w, o) ==
    Then(Step(o.read),
    Then(Say(broadcast(s, "status", StatusData("server", w.epoch))),
    Then(withContainerRetry(s, "startProcess", o.start, w.epoch),
    Then(Call(o.port, "waitForPort"),
    Then(IF r2[s].file THEN Step(TRUE) ELSE Throw(MissingError),
         withContainerRetry(s, "writeFile", o.write, w.epoch))))))

restoreEnv(s, w, o) ==
    Then(Step(o.read),
    Then(IF r2[s].file THEN Step(TRUE) ELSE Throw(MissingError),
    Then(withContainerRetry(s, "writeFile", o.write, w.epoch),
    Then(Say(broadcast(s, "status", StatusData("server", w.epoch))),
    Then(withContainerRetry(s, "startProcess", o.start, w.epoch),
         Call(o.port, "waitForPort"))))))

RestoreEnv(s, w, o) ==
    /\ w \in wfs[s] /\ w.kind = "restore" /\ w.pc = "env"
    /\ ~Blocked(s)
    /\ LET run == restoreEnv(s, w, o)
       IN IF run.ok
          THEN Reload(s, w, "restoreEnv", run, st[s], <<>>, [w EXCEPT !.pc = "expose"])
          ELSE Catch(s, w, run)
    /\ UNCHANGED <<lmVars, now, obsVars, watch, seen, fin, sockets, coAlarm, stopping, hellos, hb,
                   td, os, reqs, r2>>

\* The outcomes of the calls of #ensurePortExposed: the first exposePort
\* ("ok", "conflict" for PortAlreadyExposedError, "error" for any other
\* failure), unexposePort, and the second exposePort.  A call that is never
\* made is given as succeeding.
Exposed == [first |-> "ok", unexpose |-> TRUE, second |-> TRUE]
NotExposed == [first |-> "error", unexpose |-> TRUE, second |-> TRUE]

ExposeInputs ==
    Told({x \in [first : {"ok", "conflict", "error"}, unexpose : BOOLEAN,
                 second : BOOLEAN] :
             /\ x.first # "conflict" => x.unexpose
             /\ (x.first # "conflict" \/ ~x.unexpose) => x.second},
         {Exposed, NotExposed})

\* an exposure that unexposes and tries again after any failure
ensurePortExposedAfterAnyFailure(x) ==
    IF x.first = "ok"
    THEN Call(TRUE, "exposePort")
    ELSE Then(Call(TRUE, "exposePort"),
         Then(Call(x.unexpose, "unexposePort"),
              Call(x.second, "exposePort")))

\* #ensurePortExposed(port, hostname, token)
ensurePortExposed(x) ==
    IF x.first = "ok"
    THEN Call(TRUE, "exposePort")
    ELSE IF x.first = "conflict"
    THEN Then(Call(TRUE, "exposePort"),
         Then(Call(x.unexpose, "unexposePort"),
              Call(x.second, "exposePort")))
    ELSE Call(FALSE, "exposePort")

\* a restore that does not record the files it wrote
RestoredWithoutFiles(state) ==
    [state EXCEPT !.previewUrl = PreviewUrl, !.stage = "done"]

\* what #restoreSession stores once the port is exposed; the manifest lists
\* the one file a generation archives
Restored(state) ==
    [state EXCEPT !.previewUrl = PreviewUrl,
                  !.modifiedFiles = <<AppPath>>,
                  !.stage = "done"]

\* #restoreSession: #ensurePortExposed; then the state is read, previewUrl,
\* modifiedFiles and stage done are set and saved, preview is broadcast.
RestoreExpose(s, w, x) ==
    /\ w \in wfs[s] /\ w.kind = "restore" /\ w.pc = "expose"
    /\ ~Blocked(s)
    /\ LET run == ensurePortExposed(x)
       IN IF run.ok
          THEN Reload(s, w, "restoreExpose", run, Restored(st[s]),
                      <<broadcast(s, "preview", PreviewData(PreviewUrl, w.epoch))>>,
                      [w EXCEPT !.pc = "renew", !.url = PreviewUrl])
          ELSE Catch(s, w, run)
    /\ UNCHANGED <<lmVars, now, obsVars, watch, seen, fin, sockets, coAlarm, stopping, hellos, hb,
                   td, os, reqs, r2>>

\* #restoreSession: #renewLease(state.leaseId), then "restored" and "ready".
RestoreRenew(s, w) ==
    /\ w \in wfs[s] /\ w.kind = "restore" /\ w.pc = "renew"
    /\ ~Blocked(s)
    /\ TrackerMay(renew(leases, trackerAlarm, now, s))
    /\ wfs' = Upd(wfs, s, wfs[s] \ {w})
    /\ UNCHANGED <<now, obsVars, watch, seen, fin, st, sockets, coAlarm, stopping, hellos, hb, td,
                   os, reqs, r2>>
    /\ ObserveWork(WorkEvent(s, w, "restoreRenew", <<>>,
                         <<broadcast(s, "restored", DoneData(s, w.url, w.epoch)),
                           broadcast(s, "ready", NoData)>>))

\* #runGeneration without a previewUrl: the process started with retries, the
\* port waited for and exposed; then the state is read, previewUrl set and
\* saved, preview broadcast.
GenEnvInputs ==
    {o \in [start : Told(Failures, {0}), port : Told(BOOLEAN, {TRUE}),
             expose : ExposeInputs] :
        /\ o.start = ATTEMPTS => o.port
        /\ (o.start = ATTEMPTS \/ ~o.port) => o.expose = Exposed}

genEnv(s, w, o) ==
    Then(withContainerRetry(s, "startProcess", o.start, w.epoch),
    Then(Call(o.port, "waitForPort"),
         ensurePortExposed(o.expose)))

GenEnv(s, w, o) ==
    /\ w \in wfs[s] /\ w.kind = "generate" /\ w.pc = "env"
    /\ ~Blocked(s)
    /\ LET run == genEnv(s, w, o)
       IN IF run.ok
          THEN Reload(s, w, "genEnv", run, [st[s] EXCEPT !.previewUrl = PreviewUrl],
                      <<broadcast(s, "preview", PreviewData(PreviewUrl, w.epoch))>>,
                      [w EXCEPT !.pc = "renew1"])
          ELSE Catch(s, w, run)
    /\ UNCHANGED <<lmVars, now, obsVars, watch, seen, fin, sockets, coAlarm, stopping, hellos, hb,
                   td, os, reqs, r2>>

\* #runGeneration: #renewLease(state.leaseId), then status(agent) and the
\* read of the three files begins
GenRenew1(s, w) ==
    /\ w \in wfs[s] /\ w.kind = "generate" /\ w.pc = "renew1"
    /\ ~Blocked(s)
    /\ TrackerMay(renew(leases, trackerAlarm, now, s))
    /\ wfs' = Upd(wfs, s, SetPc(s, w, "gen"))
    /\ UNCHANGED <<now, obsVars, watch, seen, fin, st, sockets, coAlarm, stopping, hellos, hb, td,
                   os, reqs, r2>>
    /\ ObserveWork(WorkEvent(s, w, "genRenew1", <<>>,
                         <<broadcast(s, "status", StatusData("agent", w.epoch))>>))

\* #runGeneration: the three files read with retries, status(agent),
\* generateText, status(modify), the file written (one attempt); then the
\* state is read, modifiedFiles and stage done are set and saved.
GenGenInputs ==
    Told({o \in [read : Failures, gen : BOOLEAN, write : BOOLEAN] :
             /\ o.read = ATTEMPTS => o.gen
             /\ (o.read = ATTEMPTS \/ ~o.gen) => o.write},
         [read : {0}, gen : {TRUE}, write : BOOLEAN])

genGen(s, w, o) ==
    Then(withContainerRetry(s, "readFile", o.read, w.epoch),
    Then(Say(broadcast(s, "status", StatusData("agent", w.epoch))),
    Then(Step(o.gen),
    Then(Say(broadcast(s, "status", StatusData("modify", w.epoch))),
         Call(o.write, "writeFile")))))

GenGen(s, w, o) ==
    /\ w \in wfs[s] /\ w.kind = "generate" /\ w.pc = "gen"
    /\ ~Blocked(s)
    /\ LET run == genGen(s, w, o)
       IN IF run.ok
          THEN Reload(s, w, "genGen", run,
                      [st[s] EXCEPT !.modifiedFiles = <<AppPath>>, !.stage = "done"],
                      <<>>,
                      [w EXCEPT !.pc = "persist", !.url = st[s].previewUrl])
          ELSE Catch(s, w, run)
    /\ UNCHANGED <<lmVars, now, obsVars, watch, seen, fin, sockets, coAlarm, stopping, hellos, hb,
                   td, os, reqs, r2>>

\* #runGeneration: #persistToR2(state) with the state it has just saved
GenPersist(s, w) ==
    /\ w \in wfs[s] /\ w.kind = "generate" /\ w.pc = "persist"
    /\ ~Blocked(s)
    /\ \E archive \in persistToR2(r2[s], [modifiedFiles |-> <<AppPath>>]) :
          r2' = Upd(r2, s, archive)
    /\ wfs' = Upd(wfs, s, SetPc(s, w, "renew2"))
    /\ UNCHANGED <<lmVars, now, obsVars, watch, seen, fin, st, sockets, coAlarm, stopping, hellos,
                   hb, td, os, reqs>>
    /\ Quiet

\* #runGeneration: #renewLease(state.leaseId), then "done" with the
\* previewUrl of the state it saved
GenRenew2(s, w) ==
    /\ w \in wfs[s] /\ w.kind = "generate" /\ w.pc = "renew2"
    /\ ~Blocked(s)
    /\ TrackerMay(renew(leases, trackerAlarm, now, s))
    /\ wfs' = Upd(wfs, s, wfs[s] \ {w})
    /\ UNCHANGED <<now, obsVars, watch, seen, fin, st, sockets, coAlarm, stopping, hellos, hb, td,
                   os, reqs, r2>>
    /\ ObserveWork(WorkEvent(s, w, "genRenew2", <<>>,
                         <<broadcast(s, "done", DoneData(s, w.url, w.epoch))>>))

\* what a client may put in the prompt field: nothing, or a prompt
Prompts == {"", "x"}

\* A frame a client puts on the socket: binary, or text with its content.
Frame(text, body) == [text |-> text, body |-> body]

Frames ==
    {Frame(FALSE, ""),
     Frame(TRUE, "{"),
     Frame(TRUE, "null"),
     Frame(TRUE, "5"),
     Frame(TRUE, "{}"),
     Frame(TRUE, "{\"type\":\"bogus\"}"),
     Frame(TRUE, "{\"type\":\"hello\"}"),
     Frame(TRUE, "{\"type\":\"start\"}"),
     Frame(TRUE, "{\"type\":\"start\",\"prompt\":\"\"}"),
     Frame(TRUE, "{\"type\":\"start\",\"prompt\":\"x\"}")}

\* JSON.parse on the texts above: whether it returns, whether the value is
\* null, and the value's `type` and `prompt` properties
Parsed(ok, isNull, type, prompt) ==
    [ok |-> ok, isNull |-> isNull, type |-> type, prompt |-> prompt]

JSONparse(body) ==
    CASE body = "{" -> Parsed(FALSE, FALSE, Undefined, Undefined)
      [] body = "null" -> Parsed(TRUE, TRUE, Undefined, Undefined)
      [] body = "5" -> Parsed(TRUE, FALSE, Undefined, Undefined)
      [] body = "{}" -> Parsed(TRUE, FALSE, Undefined, Undefined)
      [] body = "{\"type\":\"bogus\"}" -> Parsed(TRUE, FALSE, "bogus", Undefined)
      [] body = "{\"type\":\"hello\"}" -> Parsed(TRUE, FALSE, "hello", Undefined)
      [] body = "{\"type\":\"start\"}" -> Parsed(TRUE, FALSE, "start", Undefined)
      [] body = "{\"type\":\"start\",\"prompt\":\"\"}" ->
            Parsed(TRUE, FALSE, "start", "")
      [] body = "{\"type\":\"start\",\"prompt\":\"x\"}" ->
            Parsed(TRUE, FALSE, "start", "x")

\* `Unknown message type: ${data.type}`
UnknownTypeMessage(type) ==
    CASE type = "bogus" -> "Unknown message type: bogus"
      [] type = Undefined -> "Unknown message type: undefined"

\* a webSocketMessage call that changes nothing: `replies` is what it sends
NoEffect(s, a, op, arg, replies) ==
    /\ Observe(Event(s, op, a, arg, replies))
    /\ UNCHANGED <<lmVars, now, obsVars, watch, seen, fin, coVars>>

\* webSocketMessage(ws, message): a non-text frame returns; text that does
\* not parse is answered "Invalid JSON"; `data.type` of null throws out of
\* the handler; hello and start go to their handlers; any other type is
\* answered "Unknown message type".
WebSocketMessage(s, a, frame) ==
    /\ a \in sockets[s]
    /\ ~Blocked(s)
    /\ LET data == JSONparse(frame.body)
       IN IF ~frame.text
          THEN NoEffect(s, a, "binary", "", <<>>)
          ELSE IF ~data.ok
          THEN NoEffect(s, a, "invalid", frame.body,
                        <<send(a, "error", ErrorData("Invalid JSON"))>>)
          ELSE IF data.isNull
          THEN NoEffect(s, a, "unknown", frame.body, <<>>)
          ELSE IF data.type = "hello"
          THEN Hello(s, a)
          ELSE IF data.type = "start"
          THEN Start(s, a, data.prompt)
          ELSE NoEffect(s, a, "unknown", frame.body,
                        <<send(a, "error",
                               ErrorData(UnknownTypeMessage(data.type)))>>)

\* connecting, closing and tearing down one session
Lifecycle(s) ==
    \/ RouterConnect(s)
    \/ RouterFetchFail(s)
    \/ SandboxFetch(s)
    \/ \E a \in sockets[s] : WebSocketClose(s, a)
    \/ FinishFinalize(s)

\* the frames of one session's clients, whatever they hold, and the
\* workflows they start
Protocol(s) ==
    \/ \E a \in sockets[s], frame \in Frames : WebSocketMessage(s, a, frame)
    \/ \E h \in hellos[s] : HelloResume(s, h)
    \/ \E w \in wfs[s], o \in RestoreEnvInputs(s) : RestoreEnv(s, w, o)
    \/ \E w \in wfs[s], x \in ExposeInputs : RestoreExpose(s, w, x)
    \/ \E w \in wfs[s] : RestoreRenew(s, w)
    \/ \E w \in wfs[s], o \in GenEnvInputs : GenEnv(s, w, o)
    \/ \E w \in wfs[s] : GenRenew1(s, w)
    \/ \E w \in wfs[s], o \in GenGenInputs : GenGen(s, w, o)
    \/ \E w \in wfs[s] : GenPersist(s, w)
    \/ \E w \in wfs[s] : GenRenew2(s, w)

\* the heartbeat of one session
Heartbeat(s) ==
    \/ SandboxAlarm(s)
    \/ SandboxAlarmResume(s)

\* the host stopping the container of one session
Stop(s) ==
    \/ OnStop(s)
    \/ OnStopRelease(s)
    \/ Reconstruct(s)

\* the messages of one session's clients and the workflows they start
Messages(s) ==
    \/ \E a \in sockets[s] : Hello(s, a)
    \/ \E h \in hellos[s] : HelloResume(s, h)
    \/ \E a \in sockets[s], prompt \in Prompts : Start(s, a, prompt)
    \/ \E w \in wfs[s], o \in RestoreEnvInputs(s) : RestoreEnv(s, w, o)
    \/ \E w \in wfs[s], x \in ExposeInputs : RestoreExpose(s, w, x)
    \/ \E w \in wfs[s] : RestoreRenew(s, w)
    \/ \E w \in wfs[s], o \in GenEnvInputs : GenEnv(s, w, o)
    \/ \E w \in wfs[s] : GenRenew1(s, w)
    \/ \E w \in wfs[s], o \in GenGenInputs : GenGen(s, w, o)
    \/ \E w \in wfs[s] : GenPersist(s, w)
    \/ \E w \in wfs[s] : GenRenew2(s, w)

\* What the object store may hold for a session when the system starts:
\* nothing, a complete archive, or a manifest whose file was never put.
Archives ==
    {[manifest |-> FALSE, file |-> FALSE],
     [manifest |-> TRUE, file |-> TRUE],
     [manifest |-> TRUE, file |-> FALSE]}

InitSystem(S) ==
    /\ InitTracker
    /\ st = [s \in SessionIds |-> NoState]
    /\ sockets = [s \in SessionIds |-> {}]
    /\ coAlarm = [s \in SessionIds |-> {}]
    /\ stopping = [s \in SessionIds |-> FALSE]
    /\ hellos = [s \in SessionIds |-> {}]
    /\ wfs = [s \in SessionIds |-> {}]
    /\ hb = [s \in SessionIds |-> FALSE]
    /\ td = [s \in SessionIds |-> FALSE]
    /\ os = [s \in SessionIds |-> FALSE]
    /\ reqs = [s \in SessionIds |-> NoRequests]
    /\ watch = "off"
    /\ sent = <<>>
    /\ ev = NoEvent
    /\ seen = [s \in SessionIds |-> 0]
    /\ fin = [s \in SessionIds |-> 0]
    /\ \E archives \in [S -> Archives] :
          r2 = [s \in SessionIds |-> IF s \in S THEN archives[s]
                                    ELSE [manifest |-> FALSE, file |-> FALSE]]

\* Every session and the Lease Manager, within one heartbeat interval: the
\* clients connect, reconnect and disconnect; calls may fail.
InitSystemAll == InitSystem({})

Next ==
    \/ \E s \in SessionIds : Lifecycle(s)
    \/ \E s \in SessionIds : RouterFull(s)

Spec == InitSystemAll /\ [][Next]_vars

\* One session with its clients' messages, within one heartbeat interval.
InitSession == InitSystem({1})

NextSession ==
    \/ Lifecycle(1)
    \/ Messages(1)

SpecSession == InitSession /\ [][NextSession]_vars

\* One session whose clients connect and reconnect and send any frame,
\* every socket event recorded; no socket closes.
InitOne(mode) ==
    /\ InitTracker
    /\ st = [s \in SessionIds |-> NoState]
    /\ sockets = [s \in SessionIds |-> {}]
    /\ coAlarm = [s \in SessionIds |-> {}]
    /\ stopping = [s \in SessionIds |-> FALSE]
    /\ hellos = [s \in SessionIds |-> {}]
    /\ wfs = [s \in SessionIds |-> {}]
    /\ hb = [s \in SessionIds |-> FALSE]
    /\ td = [s \in SessionIds |-> FALSE]
    /\ os = [s \in SessionIds |-> FALSE]
    /\ reqs = [s \in SessionIds |-> NoRequests]
    /\ watch = mode
    /\ sent = <<>>
    /\ ev = NoEvent
    /\ seen = [s \in SessionIds |-> 0]
    /\ fin = [s \in SessionIds |-> 0]
    /\ r2 \in [SessionIds -> Archives]
    /\ \A s \in SessionIds \ {1} : r2[s] = [manifest |-> FALSE, file |-> FALSE]

InitProtocol == InitOne("sockets")

NextProtocol ==
    \/ RouterConnect(1)
    \/ SandboxFetch(1)
    \/ Protocol(1)

SpecProtocol == InitProtocol /\ [][NextProtocol]_vars

\* One session, its connections, closes and teardowns, and generations, with
\* the record of the steps kept.
Generation(s) ==
    \/ \E a \in sockets[s], prompt \in Prompts : Start(s, a, prompt)
    \/ \E w \in wfs[s], o \in GenEnvInputs : GenEnv(s, w, o)
    \/ \E w \in wfs[s] : GenRenew1(s, w)
    \/ \E w \in wfs[s], o \in GenGenInputs : GenGen(s, w, o)
    \/ \E w \in wfs[s] : GenPersist(s, w)
    \/ \E w \in wfs[s] : GenRenew2(s, w)

NextTeardown ==
    \/ Lifecycle(1)
    \/ Generation(1)

SpecTeardown == InitProtocol /\ [][NextTeardown]_vars

\* One session, its connections (one request at a time), closes, teardowns
\* and generations with a prompt, and the host stopping its container, with
\* the record of the steps kept.
ConnectAlone(s) == InFlight(SessionIds) = 0 /\ RouterConnect(s)

Prompted(s) ==
    \/ \E a \in sockets[s] : Start(s, a, "x")
    \/ \E w \in wfs[s], o \in GenEnvInputs : GenEnv(s, w, o)
    \/ \E w \in wfs[s] : GenRenew1(s, w)
    \/ \E w \in wfs[s], o \in GenGenInputs : GenGen(s, w, o)
    \/ \E w \in wfs[s] : GenPersist(s, w)
    \/ \E w \in wfs[s] : GenRenew2(s, w)

NextStop ==
    \/ ConnectAlone(1)
    \/ RouterFetchFail(1)
    \/ SandboxFetch(1)
    \/ \E a \in sockets[1] : WebSocketClose(1, a)
    \/ FinishFinalize(1)
    \/ Prompted(1)
    \/ Stop(1)

SpecStop == InitProtocol /\ [][NextStop]_vars

\* One session, its connections (one request at a time) and messages, and
\* its workflows with every outcome of their steps, each step recorded.
InitWork == InitOne("work")

NextWork ==
    \/ ConnectAlone(1)
    \/ SandboxFetch(1)
    \/ Messages(1)

SpecWork == InitWork /\ [][NextWork]_vars

\* Every session's connection requests with every kind of session
\* parameter, the router's answers recorded.
NextAdmission ==
    \/ \E p \in Params, g \in SessionIds : HandleSessionWs(p, g)
    \/ \E s \in SessionIds : RouterFull(s)
    \/ \E s \in SessionIds : RouterFetchFail(s)
    \/ \E s \in SessionIds : SandboxFetch(s)

SpecAdmission == InitProtocol /\ [][NextAdmission]_vars

\* One session and one client, every message logged.  The client connects
\* once, sends hello once, and sends start with a prompt whenever the last
\* message it was sent is ready; the steps of the workflows have every
\* outcome.
InitScenario == InitOne("log")

ClientConnects(s) == sockets[s] = {} /\ ConnectAlone(s)

ClientGreets(s) ==
    \E a \in sockets[s] : a.state = "connected" /\ Hello(s, a)

ClientPrompts(s) ==
    /\ sent # <<>> /\ sent[Len(sent)].type = "ready"
    /\ \E a \in sockets[s] : Start(s, a, "x")

Workflows(s) ==
    \/ \E h \in hellos[s] : HelloResume(s, h)
    \/ \E w \in wfs[s], o \in RestoreEnvInputs(s) : RestoreEnv(s, w, o)
    \/ \E w \in wfs[s], x \in ExposeInputs : RestoreExpose(s, w, x)
    \/ \E w \in wfs[s] : RestoreRenew(s, w)
    \/ \E w \in wfs[s], o \in GenEnvInputs : GenEnv(s, w, o)
    \/ \E w \in wfs[s] : GenRenew1(s, w)
    \/ \E w \in wfs[s], o \in GenGenInputs : GenGen(s, w, o)
    \/ \E w \in wfs[s] : GenPersist(s, w)
    \/ \E w \in wfs[s] : GenRenew2(s, w)

NextScenario ==
    \/ ClientConnects(1)
    \/ SandboxFetch(1)
    \/ ClientGreets(1)
    \/ ClientPrompts(1)
    \/ Workflows(1)

SpecScenario == InitScenario /\ [][NextScenario]_vars

\* One session over time: its heartbeat, the sweep, the host stopping it.
NextHeartbeat ==
    \/ Lifecycle(1)
    \/ Heartbeat(1)
    \/ Stop(1)
    \/ SysTrackerAlarm
    \/ SysTick

\* no archive in the store, the record of the steps kept
InitHeartbeat ==
    /\ InitProtocol
    /\ r2 = [s \in SessionIds |-> [manifest |-> FALSE, file |-> FALSE]]

SpecHeartbeat == InitHeartbeat /\ [][NextHeartbeat]_vars

\* One session over time, its heartbeat and the sweep: the stored state is
\* deleted by #finalizeAndDestroy only.
NextAlarm ==
    \/ Lifecycle(1)
    \/ Heartbeat(1)
    \/ SysTrackerAlarm
    \/ SysTick

SpecAlarm == InitHeartbeat /\ [][NextAlarm]_vars

-----------------------------------------------------------------------------
(* Claims about the Lease Manager.                                          *)

NotExpired(t, time) == {r \in t : r.expires_at >= time}
Expired(t, time) == {r \in t : r.expires_at < time}
Others(t, leaseId) == {r \in t : r.lease_id # leaseId}

\* C2: whatever calls were made and however the clock advanced, the number of
\* rows whose expiresAt has not passed is at most MAX_CONCURRENT.
C2_CapInvariant == Cardinality(NotExpired(leases, now)) <= MAX_CONCURRENT

\* the table is at the cap and an acquire has just been refused
C2_Witness ==
    /\ Cardinality(NotExpired(leases, now)) = MAX_CONCURRENT
    /\ last.op = "acquire" /\ ~last.ok

\* C3: acquire evicts the expired rows, then succeeds iff fewer than cap rows
\* remain; on success the table is the evicted table with the row
\* (leaseId, now + TTL) put in place of any row of leaseId and {leaseId,
\* expiresAt} is returned; otherwise null is returned and the table is the
\* evicted table.
C3_Acquire ==
    [][last'.op = "acquire" =>
        LET remaining == NotExpired(leases, now)
            id == last'.id
        IN /\ last'.ok <=> (Cardinality(remaining) < MAX_CONCURRENT)
           /\ last'.ok =>
                /\ last'.val = now + LEASE_TTL_MS
                /\ leases' = Others(remaining, id) \cup {Row(id, now + LEASE_TTL_MS)}
           /\ ~last'.ok => leases' = remaining]_vars

\* an acquire that had to evict to find room has succeeded
C3_Witness ==
    /\ last.op = "acquire" /\ last.ok /\ last.swept > 0
    /\ Cardinality(leases) = MAX_CONCURRENT

\* C4: from the empty table, the first cap acquires of distinct ids succeed,
\* each with its own row and with non-decreasing expiresAt; while no release
\* and no expiry has occurred every acquire of a further id is refused; after
\* a release of one held lease the next acquire succeeds.
C4_FillFullFreed ==
    [][last'.op = "acquire" /\ ~ScnExpired(scn, now) =>
        /\ (scn.phase = "fill" /\ last'.id \notin scn.ids) =>
              /\ last'.ok
              /\ last'.val >= scn.lastExp
              /\ Row(last'.id, last'.val) \in leases'
              /\ Cardinality(leases') = Cardinality(scn.ids) + 1
        /\ (scn.phase = "full" /\ last'.id \notin scn.ids) => ~last'.ok
        /\ (scn.phase = "freed") => last'.ok]_vars

\* the whole scenario has been played: fill, refusal, release, acquire
C4_Witness ==
    /\ scn.phase = "closed" /\ scn.refused
    /\ last.op = "acquire" /\ last.ok /\ last.id \notin scn.ids

\* C5 as stated: renew of an id with no row returns null and changes nothing;
\* renew of an id with a row makes that row's expiresAt now + TTL, strictly
\* greater than before, changes no other row and returns the new expiry.
C5_RenewStrict ==
    [][last'.op = "renew" =>
        LET id == last'.id
        IN /\ RowsOf(leases, id) = {} => (~last'.ok /\ leases' = leases)
           /\ RowsOf(leases, id) # {} =>
                /\ last'.ok /\ last'.val = now + LEASE_TTL_MS
                /\ leases' = Others(leases, id) \cup {Row(id, now + LEASE_TTL_MS)}
                /\ \A r \in RowsOf(leases, id) : now + LEASE_TTL_MS > r.expires_at]_vars

\* C5 amended: the new expiresAt is never less than the previous one, and is
\* strictly greater whenever the clock has advanced since the row was written
\* (expires_at - TTL is the time of the acquire or renew that wrote the row).
C5_Renew ==
    [][last'.op = "renew" =>
        LET id == last'.id
        IN /\ RowsOf(leases, id) = {} => (~last'.ok /\ leases' = leases)
           /\ RowsOf(leases, id) # {} =>
                /\ last'.ok /\ last'.val = now + LEASE_TTL_MS
                /\ leases' = Others(leases, id) \cup {Row(id, now + LEASE_TTL_MS)}
                /\ \A r \in RowsOf(leases, id) :
                      /\ now + LEASE_TTL_MS >= r.expires_at
                      /\ now > r.expires_at - LEASE_TTL_MS
                            => now + LEASE_TTL_MS > r.expires_at]_vars

\* a renew has moved a row forward while another row stayed as it was
C5_Witness ==
    /\ last.op = "renew" /\ last.ok /\ last.prev < last.val
    /\ \E r \in leases : r.lease_id # last.id /\ r.expires_at < last.val

\* C6: release deletes the row of its leaseId and no other, returns normally
\* whether or not the row existed (then the table is unchanged), and a second
\* release of the same id right after the first changes neither the table nor
\* the alarm.
C6_ReleaseIdempotent ==
    [][last'.op = "release" =>
        /\ last'.ok
        /\ leases' = Others(leases, last'.id)
        /\ RowsOf(leases, last'.id) = {} => leases' = leases
        /\ (last.op = "release" /\ last.id = last'.id) =>
              (leases' = leases /\ trackerAlarm' = trackerAlarm)]_vars

\* a release of an id without a row has been made on a non-empty table
C6_Witness ==
    /\ last.op = "release" /\ leases # {}
    /\ Cardinality(leases) = MAX_CONCURRENT

\* C7: after a sweep (the eviction that getActive, alarm and acquire run) no
\* row that went unrenewed for longer than TTL is left, getActive counts
\* exactly the other rows, and an acquire that finds such a row in a table
\* at the cap succeeds.
C7_ExpiryFreesCapacity ==
    [][last'.op \in {"getActive", "alarm", "acquire"} =>
        /\ \A r \in leases' : ~(now - (r.expires_at - LEASE_TTL_MS) > LEASE_TTL_MS)
        /\ last'.op = "getActive" =>
              last'.val = Cardinality(NotExpired(leases, now))
        /\ (last'.op = "acquire" /\ Cardinality(leases) = MAX_CONCURRENT
              /\ Expired(leases, now) # {}) => last'.ok]_vars

\* an acquire on a table at the cap succeeded because an expired row went
C7_Witness ==
    /\ last.op = "acquire" /\ last.ok /\ last.swept = 1
    /\ Cardinality(leases) = MAX_CONCURRENT /\ RowsOf(leases, last.id) # {}
    /\ \E r \in leases : r.expires_at < last.val

\* the id has a row whose expiry the bounded clock can pass
Abandonable(id) == \E r \in leases : r.lease_id = id /\ r.expires_at < MaxTime

\* C8: after acquire, release, alarm and a renew that found its row, a
\* non-empty table has its alarm at the minimum expires_at; and with the
\* alarm delivered and the clock advancing, a row whose expiry the bounded
\* clock can pass does not stay forever: it is evicted unless it is released
\* or renewed to a later expiry first.
C8_SweepTimer ==
    /\ [][(last'.op \in {"acquire", "release", "alarm"}
            \/ (last'.op = "renew" /\ last'.ok)) =>
          (leases' # {} =>
              /\ trackerAlarm' # {}
              /\ \A a \in trackerAlarm' : \A r \in leases' : a <= r.expires_at
              /\ \A a \in trackerAlarm' : \E r \in leases' : a = r.expires_at)]_vars
    /\ \A id \in LeaseIds : Abandonable(id) ~> ~Abandonable(id)

\* the alarm has evicted a row
C8_Witness == last.op = "alarm" /\ last.swept > 0

\* C9 as stated: acquire, renew and getActive leave no expired row behind, and
\* a renew of a lease whose expiresAt is in the past returns null.
C9_ReadPathsEvict ==
    [][last'.op \in {"acquire", "renew", "getActive"} =>
        /\ Expired(leases', now) = {}
        /\ (last'.op = "renew" /\ \E r \in RowsOf(leases, last'.id) : r.expires_at < now)
              => ~last'.ok]_vars

\* C9 amended: acquire and getActive evict first, so neither leaves nor counts
\* an expired row; renew does not evict: it returns null exactly when the id
\* has no row, and it renews a row that is still in the table also when that
\* row's expiresAt has passed.
C9_CountingPathsEvict ==
    [][/\ last'.op \in {"acquire", "getActive"} =>
            /\ Expired(leases', now) = {}
            /\ last'.op = "getActive" =>
                  last'.val = Cardinality(NotExpired(leases, now))
       /\ last'.op = "renew" =>
            /\ last'.ok <=> (RowsOf(leases, last'.id) # {})
            /\ Expired(Others(leases, last'.id), now) \subseteq leases'
            /\ RowsOf(leases, last'.id) # {} =>
                  Row(last'.id, now + LEASE_TTL_MS) \in leases']_vars

\* a renew has succeeded on a row whose expiresAt had passed
C9_Witness == last.op = "renew" /\ last.ok /\ last.prev < now

-----------------------------------------------------------------------------
(* Claims about the whole system.                                           *)

\* a live session: a Coordinator with a stored session state and at least one
\* registered socket that is not marked replaced
Live(s) == st[s].present /\ \E a \in sockets[s] : ~a.replaced
LiveSessions == {s \in SessionIds : Live(s)}

\* C1: in every reachable state of the whole system the number of live
\* sessions is at most the admission cap MAX_CONCURRENT.
C1_GlobalCap == Cardinality(LiveSessions) <= MAX_CONCURRENT

\* the edges of the stage diagram
StageEdges ==
    {<<"idle", "restoring">>, <<"restoring", "done">>, <<"restoring", "idle">>,
     <<"idle", "running">>, <<"done", "running">>, <<"running", "done">>,
     <<"running", "idle">>}

\* C10: every step that changes the stored stage of a session takes it along
\* one of the edges idle->restoring, restoring->done, restoring->idle,
\* idle->running, done->running, running->done, running->idle.
C10_StageEdges ==
    [][\A s \in SessionIds :
          (st[s].present /\ st'[s].present /\ st'[s].stage # st[s].stage)
             => <<st[s].stage, st'[s].stage>> \in StageEdges]_vars

\* C11: for a given session the epoch held in the stored state never
\* decreases, over connections, attempts, closes, teardowns and reconnects:
\* a step that leaves a state stored leaves in it an epoch no lower than the
\* epoch last held.
C11_EpochMonotonic ==
    [][\A s \in SessionIds :
          st'[s].present => st'[s].epoch >= seen[s]]_vars

\* the attempts a step starts: the workflows in flight after it that were not
\* in flight before it
Started(s) == wfs'[s] \ wfs[s]
StartsAttempt(s) == Cardinality(wfs'[s]) > Cardinality(wfs[s])

\* C12: a step that starts a generation or restore attempt increases the
\* stored epoch by exactly one and the attempt carries the new epoch; no
\* other step on a stored state (a rejected request, a success, a failure)
\* changes the epoch; and no two attempts in flight at once carry the same
\* epoch.
C12_EpochPerAttempt ==
    [][\A s \in SessionIds :
          /\ StartsAttempt(s) =>
                /\ st[s].present /\ st'[s].present
                /\ st'[s].epoch = st[s].epoch + 1
                /\ \A w \in Started(s) : w.epoch = st'[s].epoch
          /\ (~StartsAttempt(s) /\ st[s].present /\ st'[s].present) =>
                st'[s].epoch = st[s].epoch
          /\ \A w1, w2 \in wfs'[s] : w1.epoch = w2.epoch => w1 = w2]_vars

-----------------------------------------------------------------------------
(* Claims about the message protocol.                                       *)

\* the step is the handling of a start request on a stored state whose stage
\* is running or restoring
StartWhileBusy(s) ==
    /\ ev'.op = "start" /\ ev'.s = s
    /\ st[s].present /\ st[s].stage \in {"running", "restoring"}

AlreadyInProgress(s) ==
    /\ Len(ev'.msgs) = 1
    /\ ev'.msgs[1].type = "error"
    /\ ev'.msgs[1].to = {ev'.ws}
    /\ ev'.msgs[1].data = ErrorData("A generation is already in progress")

\* C13 as stated: any start request received while the stage is running or
\* restoring leaves the stored state unchanged, starts no workflow and is
\* answered with the error "A generation is already in progress".
C13_StartWhileBusyAny ==
    [][\A s \in SessionIds :
          StartWhileBusy(s) =>
             /\ st'[s] = st[s] /\ wfs'[s] = wfs[s] /\ hellos'[s] = hellos[s]
             /\ AlreadyInProgress(s)]_vars

\* C13, amended: a start request with a non-empty prompt received while the
\* stage is running or restoring leaves the stored state unchanged, starts no
\* workflow and is answered, on the sender's socket only, with the error
\* "A generation is already in progress"; with an empty or missing prompt the
\* state is likewise unchanged and the answer is "prompt is required".
C13_StartWhileBusy ==
    [][\A s \in SessionIds :
          StartWhileBusy(s) =>
             /\ st'[s] = st[s] /\ wfs'[s] = wfs[s] /\ hellos'[s] = hellos[s]
             /\ ~Falsy(ev'.arg) => AlreadyInProgress(s)
             /\ Falsy(ev'.arg) =>
                   ev'.msgs = <<Msg({ev'.ws}, "error",
                                    ErrorData("prompt is required"))>>]_vars

C13_Witness ==
    /\ ev.op = "start" /\ ev.arg = "x"
    /\ st[ev.s].present /\ st[ev.s].stage = "restoring"
    /\ ev.msgs = <<Msg({ev.ws}, "error",
                       ErrorData("A generation is already in progress"))>>

\* the step handled a protocol error on socket ev'.ws of session s: text that
\* is not JSON, a message whose type is neither hello nor start, or a start
\* with an empty or missing prompt
ProtocolError(s) ==
    /\ ev'.s = s
    /\ \/ ev'.op \in {"invalid", "unknown"}
       \/ ev'.op = "start" /\ Falsy(ev'.arg)

OneErrorToSender ==
    /\ Len(ev'.msgs) = 1
    /\ ev'.msgs[1].type = "error"
    /\ ev'.msgs[1].to = {ev'.ws}

\* C14: a text frame that is not valid JSON, a message with an unknown type
\* and a start with an empty or missing prompt each send one error message,
\* to the sender only, and leave the stored state, the socket registry and
\* everything else unchanged; a non-text frame sends nothing and changes
\* nothing.
C14_ProtocolErrors ==
    [][\A s \in SessionIds :
          /\ ProtocolError(s) =>
                /\ UNCHANGED <<coVars, lmVars, seen, fin>>
                /\ OneErrorToSender
          /\ (ev'.s = s /\ ev'.op = "binary") =>
                /\ UNCHANGED <<coVars, lmVars, seen, fin>>
                /\ ev'.msgs = <<>>]_vars

\* ------------------------------------------------------------------------
\* Claims about the sockets of a session

Authoritative(S) == {a \in S : ~a.replaced}
\* a step in which fetch accepts a socket for session s
Accepts(s) == reqs'[s].fetch < reqs[s].fetch /\ sockets'[s] # sockets[s]

\* C15: when an accept for a session completes, every socket the session had
\* before it is still marked superseded or has become so, the accepted
\* socket is the one socket not superseded, and after every step at most
\* one registered socket of a session is not superseded; the connection
\* requests of a session may be in flight two at a time.
C15_SingleAuthoritative ==
    [][\A s \in SessionIds :
          /\ Cardinality(Authoritative(sockets'[s])) <= 1
          /\ Accepts(s) =>
                \E n \in sockets'[s] :
                   /\ Authoritative(sockets'[s]) = {n}
                   /\ n.state = "connected"
                   /\ n.id \notin {a.id : a \in sockets[s]}
                   /\ sockets'[s] \ {n} =
                         {[a EXCEPT !.replaced = TRUE] : a \in sockets[s]}]_vars
\* a second request of the session is in flight while the session has a
\* superseded socket and the socket accepted after it
C15_Witness ==
    \E s \in SessionIds :
       /\ reqs[s].fetch >= 1
       /\ Cardinality(sockets[s]) = 2
       /\ Cardinality(Authoritative(sockets[s])) = 1

\* a step in which the close event of socket a of session s is handled
Closes(s, a) == a \in sockets[s] /\ sockets'[s] = sockets[s] \ {a}

\* C16: the close handler of a superseded socket changes nothing: the stored
\* state stays, nothing is archived, the heartbeat alarm stays set, no
\* teardown begins and no release reaches the Lease Manager, also when the
\* socket was the last one registered.
C16_SupersededCloseNoOp ==
    [][\A s \in SessionIds : \A a \in sockets[s] :
          Closes(s, a) /\ a.replaced =>
             /\ st' = st /\ r2' = r2 /\ coAlarm' = coAlarm
             /\ td' = td /\ leases' = leases
             /\ trackerAlarm' = trackerAlarm]_vars
\* a superseded socket has closed as the last socket of its session: the
\* state is stored, no socket is registered and no teardown runs
C16_Witness ==
    \E s \in SessionIds :
       /\ sockets[s] = {} /\ st[s].present /\ ~td[s]
       /\ coAlarm[s] # {} /\ RowsOf(leases, st[s].leaseId) # {}

\* a step in which a hello or a start is handled that arrived on a socket
\* of session s already superseded
SupersededMessage(s) ==
    ev'.s = s /\ ev'.replaced /\ ev'.op \in {"hello", "start"}

\* C17: a hello or a start that arrives on a superseded socket is not
\* delivered to the session: the stage and the epoch stay as they are and
\* no restore or generation workflow starts.
C17_SupersededMessageIgnored ==
    [][\A s \in SessionIds :
          SupersededMessage(s) =>
             /\ st'[s].stage = st[s].stage
             /\ st'[s].epoch = st[s].epoch
             /\ wfs'[s] = wfs[s]]_vars

\* C18: when the close of a socket that is not superseded is handled and no
\* other socket of the session is open (every other registered socket has
\* been superseded and closed by fetch), the Coordinator enters
\* finalize-and-destroy for the stored state, whatever the stage.
C18_LastCloseTearsDown ==
    [][\A s \in SessionIds : \A a \in sockets[s] :
          (/\ Closes(s, a)
           /\ ~a.replaced
           /\ Authoritative(sockets[s] \ {a}) = {}
           /\ st[s].present)
             => td'[s]]_vars

\* ------------------------------------------------------------------------
\* Claims about finalize-and-destroy

\* a step that deletes the stored state of session s
Deletes(s) == st[s].present /\ ~st'[s].present

\* finalize-and-destroy is never begun a second time on one stored state
AtMostOneTeardown ==
    [][\A s \in SessionIds : fin'[s] <= 1]_vars

\* C19: between the initialisation of a session's stored state and its
\* deletion finalize-and-destroy runs exactly once: it is never begun a
\* second time, whichever of the heartbeat alarm and the close handler
\* begins it, and the state is deleted by nothing but its one run.
C19_ExactlyOnceTeardown ==
    [][\A s \in SessionIds :
          /\ fin'[s] <= 1
          /\ Deletes(s) => fin[s] = 1]_vars

\* a step in which finalize-and-destroy of session s ends
Finalized(s) == ev'.op = "finalize" /\ ev'.s = s

\* C20: finalize-and-destroy always completes the cleanup: whether the
\* archival failed, the release failed, both or neither, the step that ends
\* it leaves the heartbeat alarm cancelled and the stored state deleted, and
\* the handler that called it goes on (the block on the Coordinator ends).
C20_TeardownCompletes ==
    [][\A s \in SessionIds :
          Finalized(s) =>
             /\ ~st'[s].present
             /\ coAlarm'[s] = {}
             /\ ~td'[s]]_vars
\* a teardown in which the archival and the release both failed has ended
\* with the state deleted and the alarm cancelled, the lease still held
C20_Witness ==
    /\ ev.op = "finalize"
    /\ ev.arg = "archive and release failed"
    /\ ~st[ev.s].present
    /\ coAlarm[ev.s] = {}
    /\ RowsOf(leases, ev.s) # {}

\* ------------------------------------------------------------------------
\* Claims about the forced stop and the heartbeat

\* a step in which onStop runs for session s
Stops(s) == ev'.op = "stop" /\ ev'.s = s

\* C21: when the host stops a Coordinator that has a stored state, onStop
\* sends expired to every socket and takes the steps of finalize-and-destroy:
\* the files the state lists are archived, the lease release is called, the
\* heartbeat alarm is cancelled and the state deleted; and the close of a
\* socket handled after the stop begins no teardown.
C21_ForcedStop ==
    [][\A s \in SessionIds :
          /\ (Stops(s) /\ st[s].present) =>
                /\ ev'.msgs = <<Msg({x.id : x \in sockets[s]}, "expired", NoData)>>
                /\ ev'.arg # "not archived"
                /\ os'[s]
                /\ coAlarm'[s] = {}
                /\ ~st'[s].present
          /\ \A a \in sockets[s] :
                (Closes(s, a) /\ stopping[s]) => (fin'[s] = fin[s] /\ td'[s] = td[s])]_vars

\* steps of the heartbeat of session s: alarm() up to its await, and resumed
AlarmFires(s) == ev'.op = "alarm" /\ ev'.s = s
AlarmResumes(s) == ev'.op = "alarmResume" /\ ev'.s = s

\* C22: each time the heartbeat alarm fires while the session state exists:
\* with no socket registered the teardown begins and the alarm is not set
\* again; otherwise renew of the session's lease is called and, whether it
\* ran or failed, the alarm is set one heartbeat interval after the moment
\* the handler goes on.
C22_Heartbeat ==
    [][\A s \in SessionIds :
          /\ (AlarmFires(s) /\ st[s].present /\ sockets[s] = {}) =>
                /\ td'[s] /\ fin'[s] = fin[s] + 1
                /\ coAlarm'[s] = {} /\ ~hb'[s]
          /\ (AlarmFires(s) /\ st[s].present /\ sockets[s] # {}) =>
                /\ hb'[s] /\ td'[s] = td[s] /\ st'[s] = st[s]
          /\ AlarmResumes(s) =>
                /\ coAlarm'[s] = {now + HEARTBEAT_INTERVAL_MS}
                /\ \/ ev'.arg = "renewed"
                      /\ leases' = renew(leases, trackerAlarm, now, s).leases
                   \/ ev'.arg = "renew failed" /\ leases' = leases
          /\ (td[s] /\ ~td'[s]) => coAlarm'[s] = {}]_vars
\* the renew of a heartbeat failed, the session has its state and a socket,
\* and the alarm is set one interval ahead
C22_Witness ==
    /\ ev.op = "alarmResume" /\ ev.arg = "renew failed"
    /\ st[ev.s].present /\ sockets[ev.s] # {}
    /\ coAlarm[ev.s] = {now + HEARTBEAT_INTERVAL_MS}

\* C23: in every reachable state a session with a stored state and a socket
\* not superseded has a leaseId, and the Lease Manager's table holds a row
\* for that leaseId that has not expired.
C23_LiveHoldsLease ==
    \A s \in SessionIds :
       Live(s) =>
          /\ st[s].leaseId \in LeaseIds
          /\ RowsOf(NotExpired(leases, now), st[s].leaseId) # {}

\* ------------------------------------------------------------------------
\* Claims about the workflows

\* the stage a workflow of this kind persisted when it started
StageOf(kind) == IF kind = "restore" THEN "restoring" ELSE "running"

\* the stored state is no longer the one workflow w was started on
Stale(s, w) ==
    \/ ~st[s].present
    \/ st[s].epoch # w.epoch
    \/ st[s].stage # StageOf(w.kind)

\* a step taken by workflow w of session s: it goes on or ends
Continues(s, w) ==
    /\ w \in wfs[s] /\ w \notin wfs'[s]
    /\ Cardinality(wfs'[s]) <= Cardinality(wfs[s])

\* C24: a continuation of a restore or generation workflow that finds the
\* stored state gone, or with another epoch or stage than its own, writes
\* nothing to the stored stage, previewUrl or modifiedFiles.
C24_StaleWorkDiscarded ==
    [][\A s \in SessionIds : \A w \in wfs[s] :
          (Continues(s, w) /\ Stale(s, w)) =>
             /\ st'[s].stage = st[s].stage
             /\ st'[s].previewUrl = st[s].previewUrl
             /\ st'[s].modifiedFiles = st[s].modifiedFiles]_vars

\* The failure descriptions a workflow's catch block is handed
FailureDescriptions == {GenericError, MissingError}

\* a workflow of s failed in this step while a state was stored
Caught(s) == ev'.op = "catch" /\ ev'.s = s /\ st[s].present

\* the last two messages of the step are error, with the failure description
\* and `epoch`, and ready, both to every socket of s
ErrorThenReady(s, msgs, epoch) ==
    /\ Len(msgs) >= 2
    /\ LET e == msgs[Len(msgs) - 1]
           r == msgs[Len(msgs)]
       IN /\ e.type = "error" /\ e.to = {a.id : a \in sockets[s]}
          /\ e.data.epoch = epoch
          /\ e.data.message[Len(e.data.message)] \in FailureDescriptions
          /\ r.type = "ready" /\ r.to = e.to

Shape(m) ==
    IF m.type = "status" THEN <<"status", m.data.step>>
    ELSE IF m.type = "welcome" THEN <<"welcome", m.data.stage>>
    ELSE <<m.type, "">>

Shapes(log) == [i \in 1..Len(log) |-> Shape(log[i])]

\* no call was retried and no workflow failed
AllSucceeded(log) ==
    \A i \in 1..Len(log) :
       /\ log[i].type # "error"
       /\ log[i].type = "status" => "attempt" \notin DOMAIN log[i].data

\* the session was fresh when greeted, and its first generation has gone
\* through
FreshGenerationDone ==
    /\ sent # <<>>
    /\ Shape(sent[1]) = <<"welcome", "idle">>
    /\ sent[Len(sent)].type = "done"
    /\ AllSucceeded(sent)

\* C26 as stated: preview is sent after status(modify)
C26_FreshGenerationAsStated ==
    FreshGenerationDone =>
       Shapes(sent) = << <<"welcome", "idle">>, <<"ready", "">>,
                         <<"status", "server">>, <<"status", "agent">>,
                         <<"status", "agent">>, <<"status", "modify">>,
                         <<"preview", "">>, <<"done", "">> >>

\* C26, corrected: a fresh session (no manifest archived, no previewUrl)
\* answers the first hello with welcome{idle} then ready; a following start
\* with a prompt, all of whose steps succeed, sends status(server),
\* preview{url}, status(agent), status(agent), status(modify), done{url,
\* epoch 1} in this order, every one with epoch 1, and leaves stage done and
\* epoch 1 stored.
C26_FreshGeneration ==
    FreshGenerationDone =>
       /\ Shapes(sent) = << <<"welcome", "idle">>, <<"ready", "">>,
                            <<"status", "server">>, <<"preview", "">>,
                            <<"status", "agent">>, <<"status", "agent">>,
                            <<"status", "modify">>, <<"done", "">> >>
       /\ \A i \in 3..8 : sent[i].data.epoch = 1
       /\ sent[4].data.url = PreviewUrl /\ sent[8].data.url = PreviewUrl
       /\ st[1].present /\ st[1].stage = "done" /\ st[1].epoch = 1
       /\ st[1].previewUrl = PreviewUrl

\* the fresh session's first generation has gone through and the client has
\* been told
C26_Witness ==
    /\ FreshGenerationDone
    /\ sent[Len(sent)].to # {}
    /\ wfs[1] = {}

\* the first hello found a manifest archived, and the log holds the six
\* messages of its restore, none of them a retry or an error
RestoreDone ==
    /\ Len(sent) >= 6
    /\ Shape(sent[1]) = <<"welcome", "restoring">>
    /\ AllSucceeded(SubSeq(sent, 1, 6))

\* the welcome of a restore has been sent and no step of the restore has
\* been taken since
RestoreAnnounced ==
    /\ Len(sent) = 2
    /\ Shape(sent[1]) = <<"welcome", "restoring">>

\* C27: a session in stage idle, epoch 0, with a manifest archived has stage
\* restoring and epoch 1 stored when its first hello is answered; when all
\* steps succeed the messages are welcome{restoring, epoch 1},
\* status(restoring), status(server), preview{url}, restored{url, epoch 1},
\* ready, in this order, and the step that sends ready leaves stage done,
\* previewUrl and modifiedFiles (the manifest's list) stored.
C27_RestoreScenario ==
    /\ RestoreAnnounced =>
          /\ st[1].present /\ st[1].stage = "restoring" /\ st[1].epoch = 1
          /\ sent[1].data.epoch = 1
          /\ Shape(sent[2]) = <<"status", "restoring">>
    /\ RestoreDone =>
          /\ Shapes(SubSeq(sent, 1, 6)) =
                << <<"welcome", "restoring">>, <<"status", "restoring">>,
                   <<"status", "server">>, <<"preview", "">>,
                   <<"restored", "">>, <<"ready", "">> >>
          /\ \A i \in 1..5 : sent[i].data.epoch = 1
          /\ sent[4].data.url = PreviewUrl /\ sent[5].data.url = PreviewUrl
          /\ ev.op = "restoreRenew" =>
                /\ st[1].present /\ st[1].stage = "done" /\ st[1].epoch = 1
                /\ st[1].previewUrl = PreviewUrl
                /\ st[1].modifiedFiles = <<AppPath>>

\* the restore has gone through and its last message has just been sent
C27_Witness ==
    /\ RestoreDone /\ ev.op = "restoreRenew"
    /\ sent[6].to # {}
    /\ wfs[1] = {}

\* a restore of s that is about to fetch the file its manifest lists fails
\* in this step, with the file absent from the store and the state of s
\* stored
FailsWithoutArtifact(s, w) ==
    /\ Caught(s) /\ ~r2[s].file
    /\ w.kind = "restore" /\ w.pc = "env"

\* this step is the restore w of s, its manifest read with outcomes o
ReadsManifest(s, w, o) == o.read /\ RestoreEnv(s, w, o)

\* C28: a restore whose manifest lists a file absent from the store fails at
\* that file: it writes no file, starts no process, waits for and exposes no
\* port; it broadcasts error with a message containing "Missing" and then
\* ready, and leaves stage idle stored.
C28_MissingArtifact ==
    [][\A s \in SessionIds : \A w \in wfs[s] :
          FailsWithoutArtifact(s, w) =>
          \A o \in RestoreEnvInputs(s) :
          ReadsManifest(s, w, o) =>
             /\ ev'.calls = <<>>
             /\ \A w2 \in wfs'[s] : w2.n # w.n
             /\ Len(ev'.msgs) = 2
             /\ ev'.msgs[1].type = "error"
             /\ ev'.msgs[1].data.message = <<"Restore failed: ", MissingError>>
             /\ ev'.msgs[1].data.epoch = w.epoch
             /\ ev'.msgs[1].to = {a.id : a \in sockets[s]}
             /\ ev'.msgs[2].type = "ready"
             /\ ev'.msgs[2].to = ev'.msgs[1].to
             /\ st'[s].present /\ st'[s].stage = "idle"]_vars

\* a restore has failed on the missing file and a client was told
C28_Witness ==
    /\ ev.op = "catch" /\ ev.arg = "restore" /\ ev.calls = <<>>
    /\ Len(ev.msgs) = 2
    /\ ev.msgs[1].data.message = <<"Restore failed: ", MissingError>>
    /\ ev.msgs[1].to # {}
    /\ r2[1].manifest /\ ~r2[1].file
    /\ st[1].present /\ st[1].stage = "idle"

\* the step recorded in e made one of the calls `names` on the execution
\* environment
Calls(e, names) == \E i \in 1..Len(e.calls) : e.calls[i] \in names

\* C29: while a state with previewUrl set is stored, no step changes
\* previewUrl or exposes the port again; a generation started on such a state
\* starts no process, waits for no port and exposes none, and its done
\* carries the stored previewUrl.
C29_PreviewUrlSticky ==
    [][\A s \in SessionIds :
          (st[s].present /\ st[s].previewUrl # "" /\ ev'.s = s) =>
             /\ st'[s].present => st'[s].previewUrl = st[s].previewUrl
             /\ ~Calls(ev', {"exposePort"})
             /\ ev'.op = "start" =>
                   \A w \in wfs'[s] \ wfs[s] : w.pc = "renew1"
             /\ ev'.arg = "generate" =>
                   ~Calls(ev', {"startProcess", "waitForPort", "exposePort"})
             /\ ev'.op = "genRenew2" =>
                   ev'.msgs[1].data.url = st[s].previewUrl]_vars

\* how often the step recorded in e made `call`
Count(e, call) == Cardinality({i \in 1..Len(e.calls) : e.calls[i] = call})

\* the attempt numbers named by the retry statuses of e, in order
RECURSIVE Named(_)
Named(msgs) ==
    IF msgs = <<>> THEN <<>>
    ELSE IF msgs[1].type = "status" /\ "attempt" \in DOMAIN msgs[1].data
    THEN <<msgs[1].data.attempt>> \o Named(Tail(msgs))
    ELSE Named(Tail(msgs))

\* attempts made of a call whose first `failures` attempts fail
Attempts(failures) == IF failures < ATTEMPTS THEN failures + 1 ELSE ATTEMPTS

\* the statuses after the failed attempts of such a call: 2, 3, ...
NextAttempts(failures) == [i \in 1..(Attempts(failures) - 1) |-> i + 1]

\* the step recorded in e made `call` as often as that, never more than
\* ATTEMPTS times, and gave up with the failure if every attempt failed
Retried(e, call, failures) ==
    /\ Count(e, call) = Attempts(failures)
    /\ Count(e, call) <= ATTEMPTS
    /\ failures = ATTEMPTS =>
          /\ e.op = "catch" /\ e.calls[Len(e.calls)] = call
          /\ e.msgs # <<>> =>
                LET m == e.msgs[Len(e.msgs) - 1].data.message
                IN m[Len(m)] = GenericError

\* this step is a stretch of a workflow of s, gone through (op) or failed
Stretch(s, op) == ev'.s = s /\ ev'.op \in {op, "catch"}

\* the restore w of s writes the archived file and starts the process in
\* this step, the attempts failing as o says
RestoreRetries(s, w, o) ==
    /\ o.read /\ r2[s].file
    /\ RestoreEnv(s, w, o)

\* C30: the file write and the process start of a restore and the process
\* start of a generation are attempted until one succeeds, at most ATTEMPTS
\* times, each failed attempt but the last followed by a status naming the
\* next attempt; if all fail the workflow fails with the last failure.  The
\* file write of a generation is attempted once.
C30_Retry ==
    [][\A s \in SessionIds : \A w \in wfs[s] :
          /\ (Stretch(s, "restoreEnv") /\ w.kind = "restore" /\ w.pc = "env") =>
             \A o \in RestoreEnvInputs(s) :
                RestoreRetries(s, w, o) =>
                   /\ Retried(ev', "writeFile", o.write)
                   /\ o.write < ATTEMPTS => Retried(ev', "startProcess", o.start)
                   /\ Named(ev'.msgs) =
                         NextAttempts(o.write) \o
                         (IF o.write < ATTEMPTS THEN NextAttempts(o.start) ELSE <<>>)
          /\ (Stretch(s, "genEnv") /\ w.kind = "generate" /\ w.pc = "env") =>
             \A o \in GenEnvInputs :
                GenEnv(s, w, o) =>
                   /\ Retried(ev', "startProcess", o.start)
                   /\ Named(ev'.msgs) = NextAttempts(o.start)
          /\ (Stretch(s, "genGen") /\ w.kind = "generate" /\ w.pc = "gen") =>
             \A o \in GenGenInputs :
                (o.read < ATTEMPTS /\ o.gen /\ GenGen(s, w, o)) =>
                   /\ Count(ev', "writeFile") = 1
                   /\ ~o.write => ev'.op = "catch"
                   /\ Named(ev'.msgs) = NextAttempts(o.read)]_vars

\* a restore has written the file at the last attempt and started the
\* process at the second, the clients told of every retry
C30_Witness ==
    /\ ev.op = "restoreEnv"
    /\ Count(ev, "writeFile") = ATTEMPTS
    /\ Count(ev, "startProcess") = 2
    /\ Len(Named(ev.msgs)) = ATTEMPTS
    /\ ev.msgs[1].to # {}

\* the exposePort and unexposePort calls of the step recorded in e, in order
IsExposure(call) == call \in {"exposePort", "unexposePort"}
Exposures(e) == SelectSeq(e.calls, IsExposure)

\* this step is a workflow of s exposing the port, the calls of
\* #ensurePortExposed ending as x says
ExposesPort(s, w, x) ==
    \/ /\ w.kind = "restore" /\ w.pc = "expose"
       /\ RestoreExpose(s, w, x)
    \/ /\ w.kind = "generate" /\ w.pc = "env"
       /\ GenEnv(s, w, [start |-> 0, port |-> TRUE, expose |-> x])

\* what C31 says of the first exposure succeeding or failing for a reason
\* other than the conflict
ExposedOnce(x) ==
    /\ x.first = "ok" => Exposures(ev') = <<"exposePort">> /\ ev'.op # "catch"
    /\ x.first = "error" => Exposures(ev') = <<"exposePort">> /\ ev'.op = "catch"

\* C31 as stated: after the conflict the port is unexposed once and exposed a
\* second time, whatever the unexpose did
C31_PortReexposureAsStated ==
    [][\A s \in SessionIds : \A w \in wfs[s] :
          Stretch(s, IF w.kind = "restore" THEN "restoreExpose" ELSE "genEnv") =>
          \A x \in ExposeInputs :
          ExposesPort(s, w, x) =>
             /\ ExposedOnce(x)
             /\ x.first = "conflict" =>
                   /\ Exposures(ev') = <<"exposePort", "unexposePort", "exposePort">>
                   /\ ev'.op = "catch" <=> ~x.second]_vars

\* C31, corrected: a first exposure that succeeds is the only call; one that
\* fails for a reason other than the conflict fails the workflow with no
\* unexpose and no second exposure; after the conflict the port is unexposed
\* once, and if that succeeds the port is exposed exactly once more, the
\* outcome of that call being final; if the unexpose fails the workflow fails
\* with no second exposure.
C31_PortReexposure ==
    [][\A s \in SessionIds : \A w \in wfs[s] :
          Stretch(s, IF w.kind = "restore" THEN "restoreExpose" ELSE "genEnv") =>
          \A x \in ExposeInputs :
          ExposesPort(s, w, x) =>
             /\ ExposedOnce(x)
             /\ (x.first = "conflict" /\ x.unexpose) =>
                   /\ Exposures(ev') = <<"exposePort", "unexposePort", "exposePort">>
                   /\ ev'.op = "catch" <=> ~x.second
             /\ (x.first = "conflict" /\ ~x.unexpose) =>
                   /\ Exposures(ev') = <<"exposePort", "unexposePort">>
                   /\ ev'.op = "catch"]_vars

\* a restore has met the conflict, unexposed the port, exposed it again and
\* stored the previewUrl
C31_Witness ==
    /\ ev.op = "restoreExpose"
    /\ Exposures(ev) = <<"exposePort", "unexposePort", "exposePort">>
    /\ st[1].present /\ st[1].previewUrl = PreviewUrl /\ st[1].stage = "done"

\* the router's answer in this step: one message of that type and the close
\* code
Answers(code, type) ==
    /\ ev'.op = "router" /\ ev'.arg = code
    /\ Len(ev'.msgs) = 1 /\ ev'.msgs[1].type = type

\* this step turns the request away before any call to the tracker
TurnsAway ==
    /\ Answers("1008", "error")
    /\ UNCHANGED <<leases, trackerAlarm, reqs, st, sockets>>

\* the table is at the cap for an acquire made now
Full == AtCapacity(CountRows(evictExpired(leases, now)))

\* what C32 says of a request with a well-formed id for which there is no
\* capacity, and of the answer it is then given: full with the count of the
\* rows not expired and close 4429; no Coordinator hears of it
Refuses ==
    /\ \A p \in Params, g \in SessionIds :
          (SESSION_ID_RE(p) /\ Full /\ HandleSessionWs(p, g)) =>
             /\ reqs'[p.id].full = reqs[p.id].full + 1
             /\ reqs'[p.id].fetch = reqs[p.id].fetch
             /\ UNCHANGED <<st, sockets>>
    /\ \A s \in SessionIds :
          RouterFull(s) =>
             /\ Answers("4429", "full")
             /\ ev'.msgs[1].data.active = CountRows(evictExpired(leases, now))
             /\ reqs'[s].fetch = reqs[s].fetch
             /\ UNCHANGED <<st, sockets>>

\* C32 as stated: every session parameter the pattern does not match is
\* turned away
C32_AdmissionAsStated ==
    [][/\ \A p \in Params, g \in SessionIds :
             (p.kind \in {"empty", "malformed"} /\ HandleSessionWs(p, g)) => TurnsAway
       /\ Refuses]_vars

\* C32, corrected: a request whose session parameter is not empty and does
\* not match the pattern is answered with error and close 1008 without a
\* call to the tracker; a request without the parameter, or with it empty,
\* asks for a lease under a generated id; a request with a well-formed id
\* and no capacity is answered with full, carrying the count of the rows not
\* expired, and close 4429, and is never handed to a Coordinator.
C32_Admission ==
    [][/\ \A p \in Params, g \in SessionIds :
             HandleSessionWs(p, g) =>
                /\ p.kind = "malformed" => TurnsAway
                /\ p.kind \in {"absent", "empty"} =>
                      /\ leases' = acquire(leases, trackerAlarm, now, g).leases
                      /\ reqs'[g].fetch + reqs'[g].full =
                            reqs[g].fetch + reqs[g].full + 1
       /\ Refuses]_vars

\* a request has just been turned away for its parameter while another,
\* refused for capacity, waits for its answer
C32_Witness ==
    /\ ev.op = "router" /\ ev.arg = "1008"
    /\ CountRows(leases) = MAX_CONCURRENT
    /\ \E s \in SessionIds : reqs[s].full > 0 /\ RowsOf(leases, s) = {}

\* C33: in every reachable state at most one restore or generation workflow
\* is in flight for a session, and while one is in flight the stored stage
\* is restoring for a restore and running for a generation.
C33_OneWorkflow ==
    \A s \in SessionIds :
       /\ Cardinality(wfs[s]) <= 1
       /\ \A w \in wfs[s] : st[s].present /\ st[s].stage = StageOf(w.kind)

\* the teardown of session s ends with this step
TeardownEnds(s) == td[s] /\ ~td'[s]

\* session s is torn down: no state stored and no alarm set
TornDown(C, A, s) == ~C[s].present /\ A[s] = {}

\* C34: a step that ends finalize-and-destroy leaves no stored state and no
\* alarm scheduled, and from then on no step schedules an alarm for the
\* Coordinator while no state is stored, whatever was suspended when the
\* teardown ran: the session stays so until a connection stores a state.
C34_TornDownStaysQuiet ==
    [][\A s \in SessionIds :
          /\ TeardownEnds(s) => TornDown(st', coAlarm', s)
          /\ (TornDown(st, coAlarm, s) /\ ~st'[s].present) =>
                coAlarm'[s] = {}]_vars

\* this step is an acquire for a lease id whose row has not expired
Reacquires ==
    /\ last'.op = "acquire"
    /\ RowsOf(NotExpired(leases, now), last'.id) # {}

\* C35 as stated: the acquire of a lease id that holds a row not expired
\* leaves the number of rows of the table as it was; with fewer rows than the
\* cap it succeeds and the row of the id is (id, now + TTL), with the table
\* at the cap it returns null and the row of the id is as it was.
C35_ReacquireAsStated ==
    [][Reacquires =>
          /\ CountRows(leases') = CountRows(leases)
          /\ IF AtCapacity(CountRows(leases))
             THEN ~last'.ok /\ RowsOf(leases', last'.id) = RowsOf(leases, last'.id)
             ELSE /\ last'.ok /\ last'.val = now + LEASE_TTL_MS
                  /\ RowsOf(leases', last'.id) = {Row(last'.id, now + LEASE_TTL_MS)}]_vars

\* C35, corrected: the acquire of a lease id that holds a row not expired
\* adds no row and leaves the number of rows not expired as it was (the
\* expired rows of other ids are deleted); with fewer rows not expired than
\* the cap it succeeds and the row of the id is (id, now + TTL), with as
\* many as the cap it returns null and the row of the id is as it was.
C35_Reacquire ==
    [][Reacquires =>
          /\ CountRows(leases') = CountRows(NotExpired(leases, now))
          /\ CountRows(NotExpired(leases', now)) = CountRows(NotExpired(leases, now))
          /\ IF AtCapacity(CountRows(NotExpired(leases, now)))
             THEN ~last'.ok /\ RowsOf(leases', last'.id) = RowsOf(leases, last'.id)
             ELSE /\ last'.ok /\ last'.val = now + LEASE_TTL_MS
                  /\ RowsOf(leases', last'.id) = {Row(last'.id, now + LEASE_TTL_MS)}]_vars

\* a session that holds its lease, granted earlier, has just been refused
\* at the cap, and its row is as it was granted
C35_Witness ==
    /\ last.op = "acquire" /\ ~last.ok
    /\ now > 0
    /\ \E r \in RowsOf(NotExpired(leases, now), last.id) :
          r.expires_at < now + LEASE_TTL_MS
    /\ CountRows(leases) = MAX_CONCURRENT

=============================================================================
